---- MODULE Spec2Model ----
(***************************************************************************)
(* Stream framing and parameter decoding of the backslider minimal         *)
(* dashboards: PrefixECUClient (working_dashboard3.py), ECUClient          *)
(* (simple_dashboard.py) and RobustECUClient (robust_dashboard.py).        *)
(*                                                                         *)
(* Bytes are integers 0..255, byte strings are sequences of bytes.  A      *)
(* uint32 is the pair <<high 16 bits, low 16 bits>> (TLC's integers are    *)
(* 32-bit signed and cannot hold 0xFFFFFFFF).  A float32 is represented by *)
(* its IEEE-754 bit pattern, the uint32 its four little-endian bytes       *)
(* spell, which identifies the float.                                      *)
(*                                                                         *)
(* Left out: wall-clock values (sample timestamps, start_time,             *)
(* last_activity), logging, and the socketio emit of a decoded sample,     *)
(* which is taken not to raise.  The ECU and the serial line are the       *)
(* environment: the ECU writes bursts from a menu of well-formed and       *)
(* malformed frames and text, and may echo what the client wrote.          *)
(***************************************************************************)
EXTENDS Integers, Sequences, FiniteSets, TLC

VARIABLES
    program,            \* which script runs: "prefix", "simple", "robust", "fresh"
    wire,               \* bytes waiting in the serial receive queue (in_waiting)
    sent,               \* the bursts the ECU has put on the wire, in order
    tx,                 \* bytes the client has written and the ECU has not consumed
    serial_open,        \* self.serial_conn is an open port
    is_connected,       \* self.is_connected
    is_running,         \* self.is_running
    buffer,             \* self.buffer (ECUClient: the monitor's local buffer)
    parameter_values,   \* self.parameter_values
    parameter_history,  \* ECUClient.parameter_history
    stats,              \* self.stats
    next_request_id,    \* self.next_request_id
    req_pos,            \* position of the request thread in PARAMETERS.keys()
    threads,            \* where the monitor and the request thread stand
    last                \* history: what the most recent handler call started from

vars == <<program, wire, sent, tx, serial_open, is_connected, is_running, buffer,
          parameter_values, parameter_history, stats, next_request_id, req_pos,
          threads, last>>

-----------------------------------------------------------------------------
(* Bounds of the model *)

\* bursts the ECU emits in one behaviour
MaxMsgs == 2
\* requests the client sends in one behaviour
MaxRequests == 1
\* bursts the ECU emits in one behaviour of SpecHistory
MaxHistoryMsgs == 3
\* requests the client sends in one behaviour of SpecRequests: enough for
\* the request id to pass 255
MaxSends == 257

-----------------------------------------------------------------------------
(* Python byte-string helpers *)

Min(a, b) == IF a < b THEN a ELSE b
Max(a, b) == IF a > b THEN a ELSE b

\* s[a:b] with Python's clamping of the bounds
Slice(s, a, b) == SubSeq(s, Min(a, Len(s)) + 1, Min(b, Len(s)))
\* s[a:]
From(s, a) == SubSeq(s, Min(a, Len(s)) + 1, Len(s))
\* s[-n:]
LastN(s, n) == SubSeq(s, Max(Len(s) - n, 0) + 1, Len(s))
\* s[k]
At(s, k) == s[k + 1]

\* struct.pack('<I', n)
PackLE32(n) == <<n[2] % 256, n[2] \div 256, n[1] % 256, n[1] \div 256>>
\* struct.unpack('<I', b)[0]
UnpackLE32(b) == <<b[3] + 256 * b[4], b[1] + 256 * b[2]>>
\* a > b on uint32
GreaterU32(a, b) == a[1] > b[1] \/ (a[1] = b[1] /\ a[2] > b[2])
\* the uint32 0
ZeroU32 == <<0, 0>>
\* struct.unpack('<f', b)[0], as the bit pattern of the float
UnpackFloatLE(b) == UnpackLE32(b)

NEWLINE == 10

-----------------------------------------------------------------------------
(* PrefixECUClient: class constants *)

TAG_FLUID_TEMP == <<4176, 1>>       \* 0x1050 0001
TAG_CURRENT_GEAR == <<4176, 257>>   \* 0x1050 0101
TAG_VEHICLE_SPEED == <<4144, 2>>    \* 0x1030 0002

PARAMETERS ==
    (TAG_FLUID_TEMP :> [name |-> "Fluid Temperature", unit |-> "C"]) @@
    (TAG_CURRENT_GEAR :> [name |-> "Current Gear", unit |-> ""]) @@
    (TAG_VEHICLE_SPEED :> [name |-> "Vehicle Speed", unit |-> "mph"])

\* PARAMETERS.keys() in insertion order
ParameterKeys == <<TAG_FLUID_TEMP, TAG_CURRENT_GEAR, TAG_VEHICLE_SPEED>>

READ_REQUEST == 1
READ_RESPONSE == 3
BINARY_PREFIX == <<255, 255>>
CAN_MESSAGE_SIZE == 24
TOTAL_BINARY_SIZE == 2 + CAN_MESSAGE_SIZE
TRIM_LIMIT == 1024
TRIM_KEEP == 512

InitStats ==
    [total_requests |-> 0, total_responses |-> 0, successful_responses |-> 0,
     parse_errors |-> 0, raw_bytes_received |-> 0, text_messages |-> 0,
     binary_messages |-> 0, prefixes_found |-> 0]

EmptyTable == [t \in {} |-> 0]

-----------------------------------------------------------------------------
(* PrefixECUClient: receive path *)

\* mutant: the opcode is not checked
ProcessParameterResponse_AnyOpcode(can_id, data, pv, st) ==
    LET value == UnpackFloatLE(Slice(data, 1, 5))
        param_info == IF can_id \in DOMAIN PARAMETERS
                      THEN PARAMETERS[can_id]
                      ELSE [name |-> "Unknown", unit |-> ""]
    IN  [ok |-> TRUE,
         pv |-> (can_id :> [value |-> value, name |-> param_info.name,
                            unit |-> param_info.unit]) @@ pv,
         st |-> [st EXCEPT !.total_responses = @ + 1,
                           !.successful_responses = @ + 1]]

\* variant: total_responses counts a response before its opcode is looked at
ProcessParameterResponse_CountsEveryResponse(can_id, data, pv, st) ==
    LET operation == At(data, 0)
        value == UnpackFloatLE(Slice(data, 1, 5))
        param_info == IF can_id \in DOMAIN PARAMETERS
                      THEN PARAMETERS[can_id]
                      ELSE [name |-> "Unknown", unit |-> ""]
        st1 == [st EXCEPT !.total_responses = @ + 1]
    IN  IF operation # READ_RESPONSE
        THEN [ok |-> FALSE, pv |-> pv, st |-> st1]
        ELSE [ok |-> TRUE,
              pv |-> (can_id :> [value |-> value, name |-> param_info.name,
                                 unit |-> param_info.unit]) @@ pv,
              st |-> [st1 EXCEPT !.successful_responses = @ + 1]]

\* _process_parameter_response(can_id, data): [ok, pv, st]
ProcessParameterResponse(can_id, data, pv, st) ==
    LET operation == At(data, 0)
        value == UnpackFloatLE(Slice(data, 1, 5))
        param_info == IF can_id \in DOMAIN PARAMETERS
                      THEN PARAMETERS[can_id]
                      ELSE [name |-> "Unknown", unit |-> ""]
    IN  IF operation # READ_RESPONSE
        THEN [ok |-> FALSE, pv |-> pv, st |-> st]
        ELSE [ok |-> TRUE,
              pv |-> (can_id :> [value |-> value, name |-> param_info.name,
                                 unit |-> param_info.unit]) @@ pv,
              st |-> [st EXCEPT !.total_responses = @ + 1,
                                !.successful_responses = @ + 1]]

\* mutant: the length test is "at least 8"
TryParseCanMessage_LengthAtLeast8(data, pv, st) ==
    IF Len(data) < 24
    THEN [ok |-> FALSE, pv |-> pv, st |-> st]
    ELSE LET can_id == UnpackLE32(Slice(data, 0, 4))
             length == At(data, 11)
             param_data == Slice(data, 12, 20)
         IN  IF can_id \in DOMAIN PARAMETERS /\ length >= 8
             THEN ProcessParameterResponse(can_id, param_data, pv, st)
             ELSE [ok |-> FALSE, pv |-> pv, st |-> st]

\* mutant: the tag is not looked up in PARAMETERS
TryParseCanMessage_AnyTag(data, pv, st) ==
    IF Len(data) < 24
    THEN [ok |-> FALSE, pv |-> pv, st |-> st]
    ELSE LET can_id == UnpackLE32(Slice(data, 0, 4))
             length == At(data, 11)
             param_data == Slice(data, 12, 20)
         IN  IF length = 8
             THEN ProcessParameterResponse(can_id, param_data, pv, st)
             ELSE [ok |-> FALSE, pv |-> pv, st |-> st]

\* _try_parse_can_message(data): [ok, pv, st]
TryParseCanMessage(data, pv, st) ==
    IF Len(data) < 24
    THEN [ok |-> FALSE, pv |-> pv, st |-> st]
    ELSE LET can_id == UnpackLE32(Slice(data, 0, 4))
             length == At(data, 11)
             param_data == Slice(data, 12, 20)
         IN  IF can_id \in DOMAIN PARAMETERS /\ length = 8
             THEN ProcessParameterResponse(can_id, param_data, pv, st)
             ELSE [ok |-> FALSE, pv |-> pv, st |-> st]

\* The scan loop's "not a prefix, i += 1" branch, iterated: the first index
\* j >= i that the loop condition admits and at which a prefix stands, or -1
\* when i runs past len(buffer) - TOTAL_BINARY_SIZE without finding one.
NextPrefix(buf, i) ==
    LET hits == {j \in i..(Len(buf) - TOTAL_BINARY_SIZE) :
                    At(buf, j) = 255 /\ At(buf, j + 1) = 255}
    IN  IF hits = {} THEN -1
        ELSE CHOOSE j \in hits : \A k \in i..(j - 1) : k \notin hits

\* what the trace keeps of one candidate: its index, whether it parsed,
\* whether parsing it changed the table or a counter, and the tag, length and
\* opcode bytes read from it
TraceEntry(j, data, ok, changed) ==
    [pos |-> j, ok |-> ok, changed |-> changed,
     can_id |-> UnpackLE32(Slice(data, 0, 4)),
     length |-> At(data, 11),
     operation |-> At(data, 12)]

\* The while loop of _extract_binary_messages_with_prefix from scan index i.
\* trace lists the candidates tried; steps counts the executions of i += 1.
RECURSIVE ScanPrefix(_, _, _, _, _, _)

\* the loop body after _try_parse_can_message has returned r for the
\* candidate at j
ScanPrefixParsed(buf, i, j, data, pv, st1, r, trace, steps) ==
    LET entry == TraceEntry(j, data, r.ok, r.pv # pv \/ r.st # st1)
    IN  IF r.ok
        THEN ScanPrefix(From(buf, j + TOTAL_BINARY_SIZE), 0, r.pv,
                        [r.st EXCEPT !.binary_messages = @ + 1],
                        Append(trace, entry), steps + (j - i))
        ELSE ScanPrefix(buf, j + 1, r.pv, r.st,
                        Append(trace, entry), steps + (j - i) + 1)

\* the loop body for the prefix found at j, data the 24 bytes after it
ScanPrefixFound(buf, i, j, data, pv, st1, trace, steps) ==
    ScanPrefixParsed(buf, i, j, data, pv, st1,
                     TryParseCanMessage(data, pv, st1), trace, steps)

ScanPrefix(buf, i, pv, st, trace, steps) ==
    LET j == NextPrefix(buf, i)
    IN  IF j = -1
        THEN [buffer |-> buf, pv |-> pv, st |-> st, trace |-> trace,
              steps |-> steps + Max(Len(buf) - TOTAL_BINARY_SIZE + 1 - i, 0)]
        ELSE ScanPrefixFound(buf, i, j,
                             Slice(buf, j + 2, j + 2 + CAN_MESSAGE_SIZE), pv,
                             [st EXCEPT !.prefixes_found = @ + 1], trace, steps)

\* variant: the cut keeps the oldest bytes
TrimBuffer_KeepOldest(r) ==
    IF Len(r.buffer) > TRIM_LIMIT
    THEN [r EXCEPT !.buffer = Slice(r.buffer, 0, TRIM_KEEP)]
    ELSE r

\* "If buffer is getting too large, trim it"
TrimBuffer(r) ==
    IF Len(r.buffer) > TRIM_LIMIT
    THEN [r EXCEPT !.buffer = LastN(r.buffer, TRIM_KEEP)]
    ELSE r

\* mutant: a buffer of exactly one frame is not scanned
ExtractBinaryMessagesWithPrefix_OffByOne(buf, pv, st) ==
    IF Len(buf) <= TOTAL_BINARY_SIZE
    THEN [buffer |-> buf, pv |-> pv, st |-> st, trace |-> <<>>, steps |-> 0]
    ELSE TrimBuffer(ScanPrefix(buf, 0, pv, st, <<>>, 0))

\* _extract_binary_messages_with_prefix()
ExtractBinaryMessagesWithPrefix(buf, pv, st) ==
    IF Len(buf) < TOTAL_BINARY_SIZE
    THEN [buffer |-> buf, pv |-> pv, st |-> st, trace |-> <<>>, steps |-> 0]
    ELSE TrimBuffer(ScanPrefix(buf, 0, pv, st, <<>>, 0))

\* index of the first newline byte of buf, or -1
FindNewline(buf) ==
    LET hits == {k \in 0..(Len(buf) - 1) : At(buf, k) = NEWLINE}
    IN  IF hits = {} THEN -1
        ELSE CHOOSE k \in hits : \A m \in 0..(k - 1) : m \notin hits

\* _extract_text_lines(): [buffer, st]
RECURSIVE ExtractTextLines(_, _)
ExtractTextLines(buf, st) ==
    LET newline_pos == FindNewline(buf)
    IN  IF newline_pos = -1
        THEN [buffer |-> buf, st |-> st]
        ELSE ExtractTextLines(From(buf, newline_pos + 1),
                              [st EXCEPT !.text_messages = @ + 1])

\* step 2 of _process_buffer_with_prefix: _extract_text_lines on what binary
\* extraction b left
ThenExtractTextLines(b) ==
    LET t == ExtractTextLines(b.buffer, b.st)
    IN  [b EXCEPT !.buffer = t.buffer, !.st = t.st]

\* _process_buffer_with_prefix(): [buffer, pv, st, trace, steps]
ProcessBufferWithPrefix(buf, pv, st) ==
    IF Len(buf) < 2
    THEN [buffer |-> buf, pv |-> pv, st |-> st, trace |-> <<>>, steps |-> 0]
    ELSE ThenExtractTextLines(ExtractBinaryMessagesWithPrefix(buf, pv, st))

-----------------------------------------------------------------------------
(* ECUClient (simple_dashboard.py): receive path *)

SIMPLE_PARAMETERS ==
    (TAG_FLUID_TEMP :> [name |-> "Fluid Temperature", unit |-> "C",
                        min_value |-> -40, max_value |-> 150]) @@
    (TAG_CURRENT_GEAR :> [name |-> "Current Gear", unit |-> "gear",
                          min_value |-> 0, max_value |-> 8]) @@
    (TAG_VEHICLE_SPEED :> [name |-> "Vehicle Speed", unit |-> "mph",
                           min_value |-> 0, max_value |-> 200])

MAX_EXTENDED_CAN_ID == <<8191, 65535>>   \* 0x1FFF FFFF
HISTORY_MAXLEN == 50
SIMPLE_TRIM_LIMIT == 1000
SIMPLE_TRIM_KEEP == 500

SimpleInitStats ==
    [total_requests |-> 0, total_responses |-> 0, successful_responses |-> 0,
     timeouts |-> 0, parse_errors |-> 0]

\* {param_id: deque(maxlen=50) for param_id in PARAMETERS.keys()}
SimpleInitHistory == [t \in DOMAIN SIMPLE_PARAMETERS |-> <<>>]

\* variant: a ring that refuses the new entry when it is full
DequeAppend_KeepOldest(d, x) ==
    IF Len(d) >= HISTORY_MAXLEN THEN d ELSE Append(d, x)

\* deque(maxlen=HISTORY_MAXLEN).append(x)
DequeAppend(d, x) ==
    IF Len(d) >= HISTORY_MAXLEN THEN Append(Tail(d), x) ELSE Append(d, x)

\* mutant: the tag range is not checked
SimpleIsValidCanMessage_AnyTag(data) ==
    IF Len(data) # 24
    THEN FALSE
    ELSE IF At(data, 11) > 8 THEN FALSE ELSE TRUE

\* _is_valid_can_message(data)
SimpleIsValidCanMessage(data) ==
    IF Len(data) # 24
    THEN FALSE
    ELSE LET can_id == UnpackLE32(Slice(data, 0, 4))
             length == At(data, 11)
         IN  IF GreaterU32(can_id, MAX_EXTENDED_CAN_ID) \/ can_id = ZeroU32
             THEN FALSE
             ELSE IF length > 8 THEN FALSE ELSE TRUE

\* _process_parameter_response(can_id, data): [ok, pv, ph, st]
SimpleProcessParameterResponse(can_id, data, pv, ph, st) ==
    IF Len(data) < 8
    THEN [ok |-> FALSE, pv |-> pv, ph |-> ph, st |-> st]
    ELSE LET operation == At(data, 0)
             value == UnpackFloatLE(Slice(data, 1, 5))
         IN  IF operation # READ_RESPONSE
             THEN [ok |-> FALSE, pv |-> pv, ph |-> ph, st |-> st]
             ELSE IF can_id \notin DOMAIN SIMPLE_PARAMETERS
             THEN [ok |-> FALSE, pv |-> pv, ph |-> ph, st |-> st]
             ELSE [ok |-> TRUE,
                   pv |-> (can_id :> value) @@ pv,
                   ph |-> [ph EXCEPT ![can_id] = DequeAppend(@, [value |-> value])],
                   st |-> [st EXCEPT !.total_responses = @ + 1,
                                     !.successful_responses = @ + 1]]

\* _try_parse_can_message(buffer): [ok, pv, ph, st]
SimpleTryParseCanMessage(data, pv, ph, st) ==
    IF Len(data) < 24
    THEN [ok |-> FALSE, pv |-> pv, ph |-> ph, st |-> st]
    ELSE LET can_id == UnpackLE32(Slice(data, 0, 4))
             length == At(data, 11)
             param_data == Slice(data, 12, 20)
         IN  IF length > 8
             THEN [ok |-> FALSE, pv |-> pv, ph |-> ph, st |-> st]
             ELSE IF can_id \in DOMAIN SIMPLE_PARAMETERS /\ length = 8
             THEN SimpleProcessParameterResponse(can_id, param_data, pv, ph, st)
             ELSE [ok |-> TRUE, pv |-> pv, ph |-> ph, st |-> st]

\* The scan loop's "else: i += 1" branch, iterated: the first index j >= i
\* the loop condition admits whose 24-byte window _is_valid_can_message
\* accepts, or -1.
SimpleNextValid(buf, i) ==
    LET hits == {j \in i..(Len(buf) - 24) :
                    SimpleIsValidCanMessage(Slice(buf, j, j + 24))}
    IN  IF hits = {} THEN -1
        ELSE CHOOSE j \in hits : \A k \in i..(j - 1) : k \notin hits

\* The while loop of _process_buffer from scan index i.  trace lists the
\* windows that passed _is_valid_can_message and went to _try_parse_can_message.
RECURSIVE SimpleScan(_, _, _, _, _, _)

\* the loop body after _try_parse_can_message has returned r for the window at j
SimpleScanParsed(buf, j, window, pv, ph, st, r, trace) ==
    LET entry == TraceEntry(j, window, r.ok,
                            r.pv # pv \/ r.ph # ph \/ r.st # st)
    IN  IF r.ok
        THEN SimpleScan(From(buf, j + 24), 0, r.pv, r.ph, r.st,
                        Append(trace, entry))
        ELSE SimpleScan(buf, j + 1, r.pv, r.ph, r.st, Append(trace, entry))

\* the loop body for the valid window at j
SimpleScanFound(buf, j, window, pv, ph, st, trace) ==
    SimpleScanParsed(buf, j, window, pv, ph, st,
                     SimpleTryParseCanMessage(window, pv, ph, st), trace)

SimpleScan(buf, i, pv, ph, st, trace) ==
    LET j == SimpleNextValid(buf, i)
    IN  IF j = -1
        THEN [buffer |-> buf, pv |-> pv, ph |-> ph, st |-> st, trace |-> trace]
        ELSE SimpleScanFound(buf, j, Slice(buf, j, j + 24), pv, ph, st, trace)

\* _process_buffer(buffer): [buffer, pv, ph, st, trace]
SimpleProcessBuffer(buf, pv, ph, st) ==
    IF buf = <<>>
    THEN [buffer |-> buf, pv |-> pv, ph |-> ph, st |-> st, trace |-> <<>>]
    ELSE LET text_end == FindNewline(buf) + 1
             rest == IF text_end > 0 THEN From(buf, text_end) ELSE buf
         IN  SimpleScan(rest, 0, pv, ph, st, <<>>)

\* "Keep buffer manageable" in _monitor_serial
SimpleTrim(buf) ==
    IF Len(buf) > SIMPLE_TRIM_LIMIT THEN LastN(buf, SIMPLE_TRIM_KEEP) ELSE buf

-----------------------------------------------------------------------------
(* RobustECUClient (robust_dashboard.py): receive path *)

RobustInitStats ==
    [total_requests |-> 0, total_responses |-> 0, successful_responses |-> 0,
     parse_errors |-> 0, raw_bytes_received |-> 0, text_messages |-> 0,
     binary_messages |-> 0]

\* _looks_like_can_message(data)
RobustLooksLikeCanMessage(data) ==
    IF Len(data) # 24
    THEN FALSE
    ELSE LET can_id == UnpackLE32(Slice(data, 0, 4))
             length == At(data, 11)
         IN  IF can_id = ZeroU32 \/ GreaterU32(can_id, MAX_EXTENDED_CAN_ID)
             THEN FALSE
             ELSE IF length > 8 THEN FALSE ELSE TRUE

\* _process_parameter_response(can_id, data): the code of PrefixECUClient's
RobustProcessParameterResponse(can_id, data, pv, st) ==
    ProcessParameterResponse(can_id, data, pv, st)

\* _try_parse_can_message(data): [ok, pv, st]
RobustTryParseCanMessage(data, pv, st) ==
    LET can_id == UnpackLE32(Slice(data, 0, 4))
        length == At(data, 11)
        param_data == Slice(data, 12, 20)
    IN  IF can_id \in DOMAIN PARAMETERS /\ length = 8
        THEN RobustProcessParameterResponse(can_id, param_data, pv, st)
        ELSE [ok |-> FALSE, pv |-> pv, st |-> st]

\* The first index j >= i the loop condition admits whose window
\* _looks_like_can_message accepts, or -1.
RobustNextCandidate(buf, i) ==
    LET hits == {j \in i..(Len(buf) - 24) :
                    RobustLooksLikeCanMessage(Slice(buf, j, j + 24))}
    IN  IF hits = {} THEN -1
        ELSE CHOOSE j \in hits : \A k \in i..(j - 1) : k \notin hits

\* The while loop of _extract_binary_messages from scan index i.  trace lists
\* the windows that passed _looks_like_can_message.
RECURSIVE RobustScan(_, _, _, _, _)

\* the loop body after _try_parse_can_message has returned r for the window at j
RobustScanParsed(buf, j, window, pv, st, r, trace) ==
    LET entry == TraceEntry(j, window, r.ok, r.pv # pv \/ r.st # st)
    IN  IF r.ok
        THEN RobustScan(From(buf, j + 24), 0, r.pv,
                        [r.st EXCEPT !.binary_messages = @ + 1],
                        Append(trace, entry))
        ELSE RobustScan(buf, j + 1, r.pv, r.st, Append(trace, entry))

\* the loop body for the candidate window at j
RobustScanFound(buf, j, window, pv, st, trace) ==
    RobustScanParsed(buf, j, window, pv, st,
                     RobustTryParseCanMessage(window, pv, st), trace)

RobustScan(buf, i, pv, st, trace) ==
    LET j == RobustNextCandidate(buf, i)
    IN  IF j = -1
        THEN [buffer |-> buf, pv |-> pv, st |-> st, trace |-> trace]
        ELSE RobustScanFound(buf, j, Slice(buf, j, j + 24), pv, st, trace)

\* _extract_binary_messages(): [buffer, pv, st, trace]
RobustExtractBinaryMessages(buf, pv, st) ==
    IF Len(buf) < 24
    THEN [buffer |-> buf, pv |-> pv, st |-> st, trace |-> <<>>]
    ELSE TrimBuffer(RobustScan(buf, 0, pv, st, <<>>))

\* _process_buffer_robust(): [buffer, pv, st, trace]
RobustProcessBuffer(buf, pv, st) ==
    IF buf = <<>>
    THEN [buffer |-> buf, pv |-> pv, st |-> st, trace |-> <<>>]
    ELSE LET t == ExtractTextLines(buf, st)
         IN  RobustExtractBinaryMessages(t.buffer, pv, t.st)

-----------------------------------------------------------------------------
(* PrefixECUClient: send path *)

\* struct.pack('<BfBBb', READ_REQUEST, 0.0, 1, next_request_id, 0)
RequestPayload(request_id) ==
    <<READ_REQUEST>> \o PackLE32(ZeroU32) \o <<1, request_id, 0>>

\* variant: the length byte written one offset early
RequestMessage_LengthAtOffset10(can_id, request_id) ==
    PackLE32(can_id) \o <<0, 0, 0, 0, 0, 0, 8, 0>> \o RequestPayload(request_id)
        \o <<0, 0, 0, 0>>

\* the bytearray(24) send_parameter_request fills in
RequestMessage(can_id, request_id) ==
    PackLE32(can_id) \o <<0, 0, 0, 0, 0, 0, 0, 8>> \o RequestPayload(request_id)
        \o <<0, 0, 0, 0>>

\* variant: the id kept in a byte that wraps through 0
NextRequestId_Mod256(n) == (n + 1) % 256

\* the next value of next_request_id
NextRequestId(n) == (n % 255) + 1

\* struct.pack accepts v for the format character 'b' (signed char)
PacksAsSignedByte(v) == v >= -128 /\ v <= 127

\* ECUClient and RobustECUClient: struct.pack('<Bfbbb', READ_REQUEST, 0.0, 1,
\* next_request_id, 0) returns instead of raising struct.error
PlainRequestPacks(request_id) ==
    PacksAsSignedByte(1) /\ PacksAsSignedByte(request_id) /\ PacksAsSignedByte(0)

\* the 24 bytes ECUClient and RobustECUClient write for a request that packs
PlainRequestMessage(can_id, request_id) ==
    PackLE32(can_id) \o <<0, 0, 0, 0, 0, 0, 0, 8>>
        \o <<READ_REQUEST>> \o PackLE32(ZeroU32) \o <<1, request_id % 256, 0>>
        \o <<0, 0, 0, 0>>

-----------------------------------------------------------------------------
(* The ECU side of the serial link: what it may put on the wire *)

\* an 8-byte parameter payload
MkPayload(operation, value_bits, source_channel, request_id, reserved) ==
    <<operation>> \o PackLE32(value_bits) \o <<source_channel, request_id, reserved>>

\* a 24-byte CAN message: tag, timestamp, two pad bytes, flags, length, data, reserved
MkMessage(can_id, timestamp, flags, length, data) ==
    PackLE32(can_id) \o PackLE32(timestamp) \o <<0, 0, flags, length>> \o data
        \o <<0, 0, 0, 0>>

\* a sentinel-prefixed frame
MkFrame(can_id, timestamp, flags, length, data) ==
    BINARY_PREFIX \o MkMessage(can_id, timestamp, flags, length, data)

FLOAT_98_6 == <<17093, 13107>>      \* 98.6f = 0x42C5 3333
FLOAT_3_0 == <<16448, 0>>           \* 3.0f  = 0x4040 0000
TAG_UNREGISTERED == <<4176, 2>>     \* 0x1050 0002, a 29-bit tag outside PARAMETERS
TAG_TOO_BIG == <<8192, 0>>          \* 0x2000 0000 = 0x1FFFFFFF + 1
TS_ZERO == ZeroU32
TS_NEWLINES == <<0, 2570>>          \* timestamp bytes 0A 0A 00 00

\* response to the fluid temperature request: value 98.6, channel 1, request id 42
RespFluid == MkFrame(TAG_FLUID_TEMP, TS_ZERO, 0, 8, MkPayload(READ_RESPONSE, FLOAT_98_6, 1, 42, 0))
\* response whose timestamp and request id bytes are 0x0A
RespGear == MkFrame(TAG_CURRENT_GEAR, TS_NEWLINES, 0, 8, MkPayload(READ_RESPONSE, FLOAT_3_0, 1, 10, 0))
\* length byte 9
BadLength == MkFrame(TAG_FLUID_TEMP, TS_ZERO, 0, 9, MkPayload(READ_RESPONSE, FLOAT_98_6, 1, 42, 0))
\* length byte 7
ShortLength == MkFrame(TAG_FLUID_TEMP, TS_ZERO, 0, 7, MkPayload(READ_RESPONSE, FLOAT_98_6, 1, 42, 0))
\* a tag that is not registered
Unregistered == MkFrame(TAG_UNREGISTERED, TS_ZERO, 0, 8, MkPayload(READ_RESPONSE, FLOAT_3_0, 1, 7, 0))
\* tag 0 and a tag above the 29-bit ceiling
ZeroTag == MkFrame(ZeroU32, TS_ZERO, 0, 8, MkPayload(READ_RESPONSE, FLOAT_3_0, 1, 7, 0))
BigTag == MkFrame(TAG_TOO_BIG, TS_ZERO, 0, 8, MkPayload(READ_RESPONSE, FLOAT_3_0, 1, 7, 0))
\* a frame cut off after 20 bytes, and a sentinel followed by one byte
Truncated == Slice(RespFluid, 0, 20)
TruncatedNewline == <<255, 255, NEWLINE>>
\* text
TextLine == <<79, 75, NEWLINE>>
EmptyLine == <<NEWLINE>>
PartialText == <<65>>
\* 600 bytes of text in lines of 100 bytes
BulkText == [k \in 1..600 |-> IF k % 100 = 0 THEN NEWLINE ELSE 65]
\* 424 bytes of text in lines of 106 bytes
BulkTail == [k \in 1..424 |-> IF k % 106 = 0 THEN NEWLINE ELSE 66]

Menu ==
    {RespFluid, RespGear, BadLength, ShortLength, Unregistered, ZeroTag, BigTag,
     Truncated, TruncatedNewline, TextLine, EmptyLine, PartialText}

\* a frame without its sentinel: the 24-byte message ECUClient and
\* RobustECUClient expect
Unprefixed(f) == From(f, 2)

\* what the ECU sends to a client that knows no sentinel
PlainMenu ==
    {Unprefixed(f) : f \in {RespFluid, RespGear, BadLength, ShortLength,
                            Unregistered, ZeroTag, BigTag, Truncated}}
        \cup {TextLine, EmptyLine, PartialText}

MenuOf(p) == IF p = "prefix" THEN Menu ELSE PlainMenu

\* bursts of a chatty ECU: mostly text, in bulk
BulkMenu == {BulkText, BulkTail, TextLine, EmptyLine, PartialText, RespFluid}

\* 700 bytes '0'..'6' over and over: no newline, no sentinel, no valid tag
BulkNoise == [k \in 1..700 |-> 48 + (k % 7)]

\* the chatty ECU's bursts for each script
BulkMenuOf(p) ==
    IF p = "prefix" THEN BulkMenu \cup {BulkNoise}
    ELSE {BulkText, BulkNoise, TextLine, Unprefixed(RespFluid)}

\* bursts whose bytes the monitor may pick up in any number of reads
SplitMenu == {RespFluid, RespGear, TextLine}

-----------------------------------------------------------------------------
(* State and actions *)

\* no thread has been started
NoThreads == [monitor |-> "none", request |-> "none", abandoned |-> "none"]

InitLast ==
    [op |-> "init", buffer |-> <<>>, stats |-> InitStats,
     parameter_values |-> EmptyTable, trace |-> <<>>, steps |-> 0]

\* the state after PrefixECUClient() is constructed
InitPrefix ==
    /\ program = "prefix"
    /\ threads = NoThreads
    /\ wire = <<>>
    /\ sent = <<>>
    /\ tx = <<>>
    /\ serial_open = FALSE
    /\ is_connected = FALSE
    /\ is_running = FALSE
    /\ buffer = <<>>
    /\ parameter_values = EmptyTable
    /\ parameter_history = EmptyTable
    /\ stats = InitStats
    /\ next_request_id = 1
    /\ req_pos = 0
    /\ last = InitLast

\* the state after ECUClient() is constructed
InitSimple ==
    /\ program = "simple"
    /\ threads = NoThreads
    /\ wire = <<>>
    /\ sent = <<>>
    /\ tx = <<>>
    /\ serial_open = FALSE
    /\ is_connected = FALSE
    /\ is_running = FALSE
    /\ buffer = <<>>
    /\ parameter_values = EmptyTable
    /\ parameter_history = SimpleInitHistory
    /\ stats = SimpleInitStats
    /\ next_request_id = 1
    /\ req_pos = 0
    /\ last = [InitLast EXCEPT !.stats = SimpleInitStats]

\* the state after RobustECUClient() is constructed
InitRobust ==
    /\ program = "robust"
    /\ threads = NoThreads
    /\ wire = <<>>
    /\ sent = <<>>
    /\ tx = <<>>
    /\ serial_open = FALSE
    /\ is_connected = FALSE
    /\ is_running = FALSE
    /\ buffer = <<>>
    /\ parameter_values = EmptyTable
    /\ parameter_history = EmptyTable
    /\ stats = RobustInitStats
    /\ next_request_id = 1
    /\ req_pos = 0
    /\ last = [InitLast EXCEPT !.stats = RobustInitStats]

\* what the most recent call of connect() or disconnect() started from
LastCall(op) ==
    [op |-> op, buffer |-> buffer, stats |-> stats,
     parameter_values |-> parameter_values, trace |-> <<>>, steps |-> 0]

\* start_threads(): a new monitor thread and a new request thread.  A request
\* thread that disconnect() gave up waiting for while it was blocked in a
\* write is still there.
StartThreads(th) ==
    [monitor |-> "alive", request |-> "alive",
     abandoned |-> IF th.request = "sending" THEN "sending" ELSE th.abandoned]

\* connect() on a client that is not connected, the port opening
Connect ==
    /\ ~is_connected
    /\ ~(threads.request = "sending" /\ threads.abandoned = "sending")
    /\ serial_open' = TRUE
    /\ is_connected' = TRUE
    /\ is_running' = TRUE
    /\ threads' = StartThreads(threads)
    /\ last' = LastCall("connect")
    /\ UNCHANGED <<program, wire, sent, tx, buffer, parameter_values,
                   parameter_history, stats, next_request_id, req_pos>>

\* the ECU writes one burst m, in a behaviour of at most limit bursts
EcuSendUpTo(m, limit) ==
    /\ serial_open
    /\ Len(sent) < limit
    /\ wire' = wire \o m
    /\ sent' = Append(sent, m)
    /\ UNCHANGED <<program, threads, tx, serial_open, is_connected, is_running, buffer,
                   parameter_values, parameter_history, stats, next_request_id,
                   req_pos, last>>

EcuSend(m) == EcuSendUpTo(m, MaxMsgs)

\* the ECU echoes back what the client wrote
EcuEcho ==
    /\ serial_open
    /\ Len(sent) < MaxMsgs
    /\ tx # <<>>
    /\ wire' = wire \o tx
    /\ tx' = <<>>
    /\ sent' = Append(sent, tx)
    /\ UNCHANGED <<program, threads, serial_open, is_connected, is_running, buffer,
                   parameter_values, parameter_history, stats, next_request_id,
                   req_pos, last>>

\* PrefixECUClient: one iteration of _monitor_serial that finds n bytes waiting
Recv(n) ==
    /\ program = "prefix"
    /\ threads.monitor = "alive"
    /\ is_running /\ is_connected /\ serial_open
    /\ n > 0 /\ n <= Len(wire)
    /\ LET data == SubSeq(wire, 1, n)
           st0 == [stats EXCEPT !.raw_bytes_received = @ + Len(data)]
           buf0 == buffer \o data
       IN  \E r \in {ProcessBufferWithPrefix(buf0, parameter_values, st0)} :
           /\ wire' = From(wire, n)
           /\ buffer' = r.buffer
           /\ parameter_values' = r.pv
           /\ stats' = r.st
           /\ last' = [op |-> "recv", buffer |-> buf0, stats |-> st0,
                       parameter_values |-> parameter_values,
                       trace |-> r.trace, steps |-> r.steps]
    /\ UNCHANGED <<program, threads, sent, tx, serial_open, is_connected, is_running,
                   parameter_history, next_request_id, req_pos>>

\* PrefixECUClient: one send_parameter_request(can_id) of the request thread's
\* for loop over PARAMETERS.keys(), in a behaviour of at most limit requests
SendParameterRequestUpTo(limit) ==
    /\ program = "prefix"
    /\ threads.request = "alive"
    /\ is_running /\ is_connected
    /\ stats.total_requests < limit
    /\ LET can_id == ParameterKeys[req_pos + 1]
       IN  IF ~serial_open
           THEN UNCHANGED <<tx, stats, next_request_id>>
           ELSE /\ tx' = tx \o BINARY_PREFIX \o RequestMessage(can_id, next_request_id)
                /\ stats' = [stats EXCEPT !.total_requests = @ + 1]
                /\ next_request_id' = NextRequestId(next_request_id)
    /\ req_pos' = (req_pos + 1) % Len(ParameterKeys)
    /\ UNCHANGED <<program, threads, wire, sent, serial_open, is_connected, is_running,
                   buffer, parameter_values, parameter_history, last>>

SendParameterRequest == SendParameterRequestUpTo(MaxRequests)

\* ECUClient._send_parameter_request(can_id) from the request thread's for
\* loop, RobustECUClient.send_parameter_request(can_id) from
\* request_all_parameters, in a behaviour of at most limit requests.  A
\* struct.error is caught and logged by the except branch.
PlainSendParameterRequestUpTo(limit) ==
    /\ program \in {"simple", "robust"}
    /\ is_connected /\ serial_open
    /\ program = "simple" => (is_running /\ threads.request = "alive")
    /\ stats.total_requests < limit
    /\ LET can_id == ParameterKeys[req_pos + 1]
       IN  IF ~PlainRequestPacks(next_request_id)
           THEN UNCHANGED <<tx, stats, next_request_id>>
           ELSE /\ tx' = tx \o PlainRequestMessage(can_id, next_request_id)
                /\ stats' = [stats EXCEPT !.total_requests = @ + 1]
                /\ next_request_id' = NextRequestId(next_request_id)
    /\ req_pos' = (req_pos + 1) % Len(ParameterKeys)
    /\ last' = [op |-> "send", buffer |-> tx, stats |-> stats,
                parameter_values |-> parameter_values,
                trace |-> <<next_request_id>>, steps |-> 0]
    /\ UNCHANGED <<program, threads, wire, sent, serial_open, is_connected,
                   is_running, buffer, parameter_values, parameter_history>>

\* ECUClient: one iteration of _monitor_serial, which reads what is waiting
\* (if anything), processes the buffer and trims it
SimpleMonitor ==
    /\ program = "simple"
    /\ is_running /\ is_connected /\ serial_open
    /\ LET buf0 == buffer \o wire
       IN  \E r \in {SimpleProcessBuffer(buf0, parameter_values,
                                        parameter_history, stats)} :
           /\ wire' = <<>>
           /\ buffer' = SimpleTrim(r.buffer)
           /\ parameter_values' = r.pv
           /\ parameter_history' = r.ph
           /\ stats' = r.st
           /\ last' = [op |-> "recv", buffer |-> buf0, stats |-> stats,
                       parameter_values |-> parameter_values,
                       trace |-> r.trace, steps |-> 0]
    /\ UNCHANGED <<program, threads, sent, tx, serial_open, is_connected, is_running,
                   next_request_id, req_pos>>

\* RobustECUClient: one iteration of _monitor_serial that finds bytes waiting
RobustMonitor ==
    /\ program = "robust"
    /\ is_running /\ is_connected
    /\ Len(wire) > 0
    /\ LET st0 == [stats EXCEPT !.raw_bytes_received = @ + Len(wire)]
           buf0 == buffer \o wire
       IN  \E r \in {RobustProcessBuffer(buf0, parameter_values, st0)} :
           /\ wire' = <<>>
           /\ buffer' = r.buffer
           /\ parameter_values' = r.pv
           /\ stats' = r.st
           /\ last' = [op |-> "recv", buffer |-> buf0, stats |-> st0,
                       parameter_values |-> parameter_values,
                       trace |-> r.trace, steps |-> 0]
    /\ UNCHANGED <<program, threads, sent, tx, serial_open, is_connected, is_running,
                   parameter_history, next_request_id, req_pos>>

\* the monitor reads everything that is waiting
RecvAll == Recv(Len(wire))
\* the monitor runs while a burst is still arriving
RecvPart == \E n \in 1..(Len(wire) - 1) : Recv(n)

\* one of the three scripts is started
Init == InitPrefix \/ InitSimple \/ InitRobust

Next ==
    \/ Connect
    \/ \E m \in MenuOf(program) : EcuSend(m)
    \/ EcuEcho
    \/ RecvAll
    \/ SendParameterRequest
    \/ SimpleMonitor
    \/ RobustMonitor

Spec == Init /\ [][Next]_vars

\* PrefixECUClient or ECUClient fed by a chatty ECU
InitBulk == InitPrefix \/ InitSimple

NextBulk ==
    \/ Connect
    \/ \E m \in BulkMenuOf(program) : EcuSend(m)
    \/ RecvAll
    \/ SimpleMonitor

SpecBulk == InitBulk /\ [][NextBulk]_vars

\* PrefixECUClient with the monitor polling at any moment of a burst
NextSplit ==
    \/ Connect
    \/ \E m \in SplitMenu : EcuSend(m)
    \/ RecvAll
    \/ RecvPart

SpecSplit == InitPrefix /\ [][NextSplit]_vars

-----------------------------------------------------------------------------
(* PrefixECUClient: connection life cycle (working_dashboard3.py)          *)
(*                                                                         *)
(* Timing is abstracted as follows.  The monitor thread's iteration is     *)
(* short (a non-blocking read, the processing, a sleep of 1 ms) and the    *)
(* request thread outside a write sleeps 0.2 s + 1.0 s at most before it   *)
(* tests the flags, so join(timeout=2.0) sees them end.  A request thread   *)
(* inside send_parameter_request is in two serial writes of up to          *)
(* write_timeout = 1.0 s each and a flush without timeout: the join may    *)
(* give up on it.  A write that fails is taken to have written nothing.    *)

\* the two join(timeout=2.0) calls of disconnect()
Joined(th) ==
    [th EXCEPT !.monitor = IF @ = "alive" THEN "done" ELSE @,
               !.request = IF @ = "alive" THEN "done" ELSE @]

\* disconnect(): the flags, the joins, cleanup_connection()
Disconnect ==
    /\ program = "prefix"
    /\ is_running' = FALSE
    /\ is_connected' = FALSE
    /\ threads' = Joined(threads)
    /\ serial_open' = FALSE
    /\ wire' = <<>>
    /\ buffer' = <<>>
    /\ parameter_values' = EmptyTable
    /\ last' = LastCall("disconnect")
    /\ UNCHANGED <<program, sent, tx, parameter_history, stats, next_request_id,
                   req_pos>>

\* connect() on a connected client: disconnect() first, then the port opens
Reconnect ==
    /\ program = "prefix"
    /\ is_connected
    /\ ~(threads.request = "sending" /\ threads.abandoned = "sending")
    /\ serial_open' = TRUE
    /\ is_connected' = TRUE
    /\ is_running' = TRUE
    /\ threads' = StartThreads(Joined(threads))
    /\ wire' = <<>>
    /\ buffer' = <<>>
    /\ parameter_values' = EmptyTable
    /\ last' = LastCall("connect")
    /\ UNCHANGED <<program, sent, tx, parameter_history, stats, next_request_id,
                   req_pos>>

\* connect() when the port cannot be opened: disconnect() first if connected,
\* then cleanup_connection() in the except branch
ConnectFails ==
    /\ program = "prefix"
    /\ is_running' = FALSE
    /\ is_connected' = FALSE
    /\ threads' = IF is_connected THEN Joined(threads) ELSE threads
    /\ serial_open' = FALSE
    /\ wire' = <<>>
    /\ buffer' = <<>>
    /\ parameter_values' = EmptyTable
    /\ last' = LastCall("connect_failed")
    /\ UNCHANGED <<program, sent, tx, parameter_history, stats, next_request_id,
                   req_pos>>

\* the request thread enters send_parameter_request, finds the port open and
\* starts to write
SendBegin ==
    /\ program = "prefix"
    /\ threads.request = "alive"
    /\ is_running /\ is_connected /\ serial_open
    /\ stats.total_requests < MaxRequests
    /\ threads' = [threads EXCEPT !.request = "sending"]
    /\ UNCHANGED <<program, wire, sent, tx, serial_open, is_connected, is_running,
                   buffer, parameter_values, parameter_history, stats,
                   next_request_id, req_pos, last>>

\* the writes of a request thread (who = "request": the current one,
\* "abandoned": one a disconnect() gave up waiting for) return: done on the
\* port self.serial_conn is now, or failed, the exception caught and logged
SendEnd(who) ==
    /\ program = "prefix"
    /\ threads[who] = "sending"
    /\ LET can_id == ParameterKeys[req_pos + 1]
       IN  IF ~serial_open
           THEN UNCHANGED <<tx, stats, next_request_id>>
           ELSE /\ tx' = tx \o BINARY_PREFIX \o RequestMessage(can_id, next_request_id)
                /\ stats' = [stats EXCEPT !.total_requests = @ + 1]
                /\ next_request_id' = NextRequestId(next_request_id)
    /\ req_pos' = (req_pos + 1) % Len(ParameterKeys)
    /\ threads' = [threads EXCEPT
                      ![who] = IF who = "request" THEN "alive" ELSE "none"]
    /\ UNCHANGED <<program, wire, sent, serial_open, is_connected, is_running,
                   buffer, parameter_values, parameter_history, last>>

\* the request thread finds a flag down and leaves _request_parameters
RequestExit ==
    /\ program = "prefix"
    /\ threads.request = "alive"
    /\ ~(is_running /\ is_connected)
    /\ threads' = [threads EXCEPT !.request = "done"]
    /\ UNCHANGED <<program, wire, sent, tx, serial_open, is_connected, is_running,
                   buffer, parameter_values, parameter_history, stats,
                   next_request_id, req_pos, last>>

\* in_waiting or read raises in _monitor_serial: the except branch logs, finds
\* is_connected still set, sleeps 0.1 s and the loop goes on
MonitorReadError ==
    /\ program = "prefix"
    /\ threads.monitor = "alive"
    /\ is_running /\ is_connected /\ serial_open
    /\ last' = LastCall("read_error")
    /\ UNCHANGED <<program, threads, wire, sent, tx, serial_open, is_connected,
                   is_running, buffer, parameter_values, parameter_history,
                   stats, next_request_id, req_pos>>

\* bytes on the line to the ECU up to which a write may still fail
MaxErrorBytes == 30

\* variant: the request is counted before it is written
SendError_CountsFirst(who, written) ==
    /\ program = "prefix"
    /\ threads[who] = "sending"
    /\ serial_open
    /\ Len(tx) < MaxErrorBytes
    /\ tx' = tx \o Slice(BINARY_PREFIX \o RequestMessage(ParameterKeys[req_pos + 1],
                                                         next_request_id),
                         0, written)
    /\ stats' = [stats EXCEPT !.total_requests = @ + 1]
    /\ next_request_id' = NextRequestId(next_request_id)
    /\ req_pos' = (req_pos + 1) % Len(ParameterKeys)
    /\ threads' = [threads EXCEPT
                      ![who] = IF who = "request" THEN "alive" ELSE "none"]
    /\ last' = [LastCall("send_error") EXCEPT !.buffer = tx]
    /\ UNCHANGED <<program, wire, sent, serial_open, is_connected, is_running,
                   buffer, parameter_values, parameter_history>>

\* a write or the flush of send_parameter_request raises on the open port
\* (SerialTimeoutException after write_timeout, or an I/O error) after
\* `written` bytes went out: 0 (the write of the prefix), 2 (the write of
\* the message) or 26 (the flush); the except branch logs and the call
\* returns
SendError(who, written) ==
    /\ program = "prefix"
    /\ threads[who] = "sending"
    /\ serial_open
    /\ Len(tx) < MaxErrorBytes
    /\ tx' = tx \o Slice(BINARY_PREFIX \o RequestMessage(ParameterKeys[req_pos + 1],
                                                         next_request_id),
                         0, written)
    /\ req_pos' = (req_pos + 1) % Len(ParameterKeys)
    /\ threads' = [threads EXCEPT
                      ![who] = IF who = "request" THEN "alive" ELSE "none"]
    /\ last' = [LastCall("send_error") EXCEPT !.buffer = tx]
    /\ UNCHANGED <<program, wire, sent, serial_open, is_connected, is_running,
                   buffer, parameter_values, parameter_history, stats,
                   next_request_id>>

\* the request thread between connects and disconnects, writes failing or not
NextSendErrors ==
    \/ Connect
    \/ Disconnect
    \/ SendBegin
    \/ SendEnd("request")
    \/ SendEnd("abandoned")
    \/ RequestExit
    \/ \E written \in {0, 2, 26} : SendError("request", written)

SpecSendErrors == InitPrefix /\ [][NextSendErrors]_vars

\* what the ECU sends in the life cycle behaviours
LifeMenu == {RespFluid, BadLength, TextLine}

NextLife ==
    \/ Connect
    \/ Reconnect
    \/ ConnectFails
    \/ Disconnect
    \/ \E m \in LifeMenu : EcuSend(m)
    \/ RecvAll
    \/ SendBegin
    \/ SendEnd("request")
    \/ SendEnd("abandoned")
    \/ RequestExit
    \/ MonitorReadError

SpecLife == InitPrefix /\ [][NextLife]_vars

\* _process_buffer_with_prefix() called once more right after a monitor cycle,
\* no byte appended in between
ProcessAgain ==
    /\ program = "prefix"
    /\ last.op = "recv"
    /\ \E r \in {ProcessBufferWithPrefix(buffer, parameter_values, stats)} :
           /\ buffer' = r.buffer
           /\ parameter_values' = r.pv
           /\ stats' = r.st
           /\ last' = [op |-> "again", buffer |-> buffer, stats |-> stats,
                       parameter_values |-> parameter_values,
                       trace |-> r.trace, steps |-> r.steps]
    /\ UNCHANGED <<program, threads, wire, sent, tx, serial_open, is_connected,
                   is_running, parameter_history, next_request_id, req_pos>>

\* PrefixECUClient with every monitor cycle possibly followed by a second pass
NextRefeed ==
    \/ Connect
    \/ \E m \in Menu : EcuSend(m)
    \/ RecvAll
    \/ ProcessAgain

SpecRefeed == InitPrefix /\ [][NextRefeed]_vars

\* the ECU's answer to the 26-byte request req: same tag, opcode 0x03, a
\* value, the request's source channel and request id
ResponseTo(req) ==
    MkFrame(UnpackLE32(Slice(req, 2, 6)), TS_ZERO, 0, 8,
            MkPayload(READ_RESPONSE, FLOAT_98_6, At(req, 19), At(req, 20), 0))

\* the ECU takes the oldest request off the line and answers it
EcuRespond ==
    /\ serial_open
    /\ Len(sent) < MaxMsgs
    /\ Len(tx) >= TOTAL_BINARY_SIZE
    /\ \E resp \in {ResponseTo(Slice(tx, 0, TOTAL_BINARY_SIZE))} :
           /\ wire' = wire \o resp
           /\ sent' = Append(sent, resp)
    /\ tx' = From(tx, TOTAL_BINARY_SIZE)
    /\ UNCHANGED <<program, threads, serial_open, is_connected, is_running,
                   buffer, parameter_values, parameter_history, stats,
                   next_request_id, req_pos, last>>

\* PrefixECUClient talking to an ECU that answers its requests
NextRoundTrip ==
    \/ Connect
    \/ SendParameterRequest
    \/ EcuRespond
    \/ \E m \in Menu : EcuSend(m)
    \/ RecvAll

SpecRoundTrip == InitPrefix /\ [][NextRoundTrip]_vars

\* the k-th response of a long run: its value's bit pattern spells k
HistoryFrame(tag, k) ==
    MkMessage(tag, TS_ZERO, 0, 8,
              MkPayload(READ_RESPONSE, <<16448, 100 + k>>, 1, 0, 0))

\* the responses number from + 1 .. from + n for one tag, back to back
RECURSIVE HistoryBurst(_, _, _)
HistoryBurst(tag, from, n) ==
    IF n = 0 THEN <<>>
    ELSE HistoryBurst(tag, from, n - 1) \o HistoryFrame(tag, from + n)

HISTORY_BURST == 25

\* what the ECU may send after it has sent b bursts
HistoryMenu(b) ==
    {HistoryBurst(TAG_FLUID_TEMP, HISTORY_BURST * b, HISTORY_BURST),
     HistoryBurst(TAG_CURRENT_GEAR, HISTORY_BURST * b, HISTORY_BURST),
     HistoryBurst(TAG_FLUID_TEMP, HISTORY_BURST * b, 1)}

\* ECUClient receiving responses for a long time, the monitor (which polls
\* every millisecond) picking up each burst before the next one is sent
NextHistory ==
    \/ Connect
    \/ /\ wire = <<>>
       /\ \E m \in HistoryMenu(Len(sent)) : EcuSendUpTo(m, MaxHistoryMsgs)
    \/ SimpleMonitor

SpecHistory == InitSimple /\ [][NextHistory]_vars

\* ECUClient's request thread, or RobustECUClient's main loop, running for a
\* long time, the ECU silent
InitPlain == InitSimple \/ InitRobust

NextPlainRequests ==
    \/ Connect
    \/ PlainSendParameterRequestUpTo(MaxSends)

SpecPlainRequests == InitPlain /\ [][NextPlainRequests]_vars

\* RobustECUClient.disconnect() (PrefixECUClient.disconnect() of
\* prefix_dashboard.py is the same): is_running is cleared and the port is
\* closed if it is open; is_connected is not assigned
RobustDisconnect ==
    /\ program = "robust"
    /\ is_running' = FALSE
    /\ serial_open' = FALSE
    /\ wire' = <<>>
    /\ last' = LastCall("disconnect")
    /\ UNCHANGED <<program, threads, sent, tx, is_connected, buffer,
                   parameter_values, parameter_history, stats, next_request_id,
                   req_pos>>

\* get_status(): the flags and the buffer size of the report
GetStatus ==
    [connected |-> is_connected, running |-> is_running,
     buffer_size |-> Len(buffer)]

\* robust_dashboard.py main(): connect, monitor and request, disconnect
NextRobustLife ==
    \/ Connect
    \/ \E m \in MenuOf(program) : EcuSend(m)
    \/ RobustMonitor
    \/ PlainSendParameterRequestUpTo(MaxRequests)
    \/ RobustDisconnect

SpecRobustLife == InitRobust /\ [][NextRobustLife]_vars

(* Stopping the tasks (working_dashboard3.py and simple_dashboard.py).  The  *)
(* life cycle above takes disconnect() as one step; here its two halves are *)
(* separate steps and the tasks leave their loops in steps of their own.    *)

\* disconnect(), first half: the two flags are cleared
DisconnectFlags ==
    /\ program \in {"prefix", "simple"}
    /\ is_connected /\ is_running
    /\ is_running' = FALSE
    /\ is_connected' = FALSE
    /\ last' = LastCall("disconnect")
    /\ UNCHANGED <<program, threads, wire, sent, tx, serial_open, buffer,
                   parameter_values, parameter_history, stats, next_request_id,
                   req_pos>>

\* disconnect(), second half: the joins have returned (see the timing note of
\* the life cycle: only a request thread inside a write outlasts its join) and
\* cleanup_connection() closes the port; PrefixECUClient clears the buffer and
\* the value table, ECUClient does not
DisconnectCleanup ==
    /\ program \in {"prefix", "simple"}
    /\ ~is_running /\ ~is_connected /\ serial_open
    /\ threads.monitor # "alive" /\ threads.request # "alive"
    /\ serial_open' = FALSE
    /\ wire' = <<>>
    /\ IF program = "prefix"
       THEN buffer' = <<>> /\ parameter_values' = EmptyTable
       ELSE UNCHANGED <<buffer, parameter_values>>
    /\ UNCHANGED <<program, threads, sent, tx, is_connected, is_running,
                   parameter_history, stats, next_request_id, req_pos, last>>

\* variant: a monitor loop that tests the port only, while self.serial_conn
MonitorExit_PortOnly ==
    /\ program \in {"prefix", "simple"}
    /\ threads.monitor = "alive"
    /\ ~serial_open
    /\ threads' = [threads EXCEPT !.monitor = "done"]
    /\ UNCHANGED <<program, wire, sent, tx, serial_open, is_connected, is_running,
                   buffer, parameter_values, parameter_history, stats,
                   next_request_id, req_pos, last>>

\* _monitor_serial: the while condition (is_running and is_connected and
\* serial_conn) is false, the thread leaves the loop
MonitorExit ==
    /\ program \in {"prefix", "simple"}
    /\ threads.monitor = "alive"
    /\ ~(is_running /\ is_connected /\ serial_open)
    /\ threads' = [threads EXCEPT !.monitor = "done"]
    /\ UNCHANGED <<program, wire, sent, tx, serial_open, is_connected, is_running,
                   buffer, parameter_values, parameter_history, stats,
                   next_request_id, req_pos, last>>

\* ECUClient._request_parameters after the flags were cleared in the middle of
\* the for loop over PARAMETERS: the loop has no test of its own, the
\* remaining requests are still made (a closed port or a struct.error makes
\* _send_parameter_request return without writing)
SimpleRequestDrain ==
    /\ program = "simple"
    /\ threads.request = "alive"
    /\ ~(is_running /\ is_connected)
    /\ req_pos # 0
    /\ LET can_id == ParameterKeys[req_pos + 1]
       IN  IF ~serial_open \/ ~PlainRequestPacks(next_request_id)
           THEN UNCHANGED <<tx, stats, next_request_id>>
           ELSE /\ tx' = tx \o PlainRequestMessage(can_id, next_request_id)
                /\ stats' = [stats EXCEPT !.total_requests = @ + 1]
                /\ next_request_id' = NextRequestId(next_request_id)
    /\ req_pos' = (req_pos + 1) % Len(ParameterKeys)
    /\ UNCHANGED <<program, threads, wire, sent, serial_open, is_connected,
                   is_running, buffer, parameter_values, parameter_history, last>>

\* ECUClient._request_parameters: the for loop is over, the while condition
\* (is_running and is_connected) is false, the thread leaves the loop
SimpleRequestExit ==
    /\ program = "simple"
    /\ threads.request = "alive"
    /\ ~(is_running /\ is_connected)
    /\ req_pos = 0
    /\ threads' = [threads EXCEPT !.request = "done"]
    /\ UNCHANGED <<program, wire, sent, tx, serial_open, is_connected, is_running,
                   buffer, parameter_values, parameter_history, stats,
                   next_request_id, req_pos, last>>

\* the steps of the two tasks that do not wait for anyone else
MonitorStops == MonitorExit
RequestStops ==
    \/ SendEnd("request")
    \/ RequestExit
    \/ SimpleRequestDrain
    \/ SimpleRequestExit

\* connect() called when no disconnect() is under way
ConnectIdle == ~serial_open /\ Connect

NextStop ==
    \/ ConnectIdle
    \/ DisconnectFlags
    \/ DisconnectCleanup
    \/ EcuSend(RespFluid)
    \/ RecvAll
    \/ SimpleMonitor
    \/ SendBegin
    \/ PlainSendParameterRequestUpTo(MaxRequests)
    \/ SendEnd("abandoned")
    \/ MonitorStops
    \/ RequestStops

\* the threads are scheduled again and again, and a write returns (done, or
\* failed after write_timeout = 1.0 s)
SpecStop ==
    /\ InitPrefix \/ InitSimple
    /\ [][NextStop]_vars
    /\ WF_vars(MonitorStops)
    /\ WF_vars(RequestStops)

\* PrefixECUClient's request thread running for a long time, the ECU silent
NextRequests ==
    \/ Connect
    \/ SendParameterRequestUpTo(MaxSends)

SpecRequests == InitPrefix /\ [][NextRequests]_vars

-----------------------------------------------------------------------------
(* FreshCANDashboard (working_can_dashboard2.py) *)

\* bound: bursts the ECU sends to FreshCANDashboard
MaxFreshMsgs == 2

\* struct.unpack('>f', b)[0], as the bit pattern of the float
UnpackFloatBE(b) == <<b[2] + 256 * b[1], b[4] + 256 * b[3]>>

\* IEEE-754 single precision on bit patterns: NaN, sign, zero, and a <= b as
\* Python compares the unpacked floats
FloatIsNaN(x) ==
    (x[1] % 32768) > 32640 \/ ((x[1] % 32768) = 32640 /\ x[2] # 0)
FloatIsNeg(x) == x[1] >= 32768
FloatIsZero(x) == (x[1] % 32768) = 0 /\ x[2] = 0
FloatLeq(a, b) ==
    /\ ~FloatIsNaN(a)
    /\ ~FloatIsNaN(b)
    /\ \/ FloatIsZero(a) /\ FloatIsZero(b)
       \/ FloatIsNeg(a) /\ ~FloatIsNeg(b)
       \/ ~FloatIsNeg(a) /\ ~FloatIsNeg(b) /\ ~GreaterU32(a, b)
       \/ FloatIsNeg(a) /\ FloatIsNeg(b) /\ ~GreaterU32(b, a)

\* the float literals of the range tests, as bit patterns
FLOAT_0 == <<0, 0>>             \* 0.0
FLOAT_10 == <<16672, 0>>        \* 10.0  = 0x4120 0000
FLOAT_50 == <<16968, 0>>        \* 50.0  = 0x4248 0000
FLOAT_200 == <<17224, 0>>       \* 200.0 = 0x4348 0000
FLOAT_400 == <<17352, 0>>       \* 400.0 = 0x43C8 0000

\* can_patterns: the 4-byte patterns searched for, which are the tags
can_patterns == {TAG_CURRENT_GEAR, TAG_FLUID_TEMP, TAG_VEHICLE_SPEED}

\* mutant: the big-endian reading is tried first
FreshInterpret_BigEndianFirst(found_can_id, float_le, float_be) ==
    IF found_can_id = TAG_CURRENT_GEAR
    THEN IF FloatLeq(FLOAT_0, float_be) /\ FloatLeq(float_be, FLOAT_10)
         THEN float_be
         ELSE float_le
    ELSE IF found_can_id = TAG_FLUID_TEMP
    THEN IF FloatLeq(FLOAT_50, float_be) /\ FloatLeq(float_be, FLOAT_400)
         THEN float_be
         ELSE float_le
    ELSE IF found_can_id = TAG_VEHICLE_SPEED
    THEN IF FloatLeq(FLOAT_0, float_be) /\ FloatLeq(float_be, FLOAT_200)
         THEN float_be
         ELSE float_le
    ELSE float_le

\* "Choose the most reasonable value based on the message type": float_val
FreshInterpret(found_can_id, float_le, float_be) ==
    IF found_can_id = TAG_CURRENT_GEAR
    THEN IF FloatLeq(FLOAT_0, float_le) /\ FloatLeq(float_le, FLOAT_10)
         THEN float_le
         ELSE IF FloatLeq(FLOAT_0, float_be) /\ FloatLeq(float_be, FLOAT_10)
         THEN float_be
         ELSE float_le
    ELSE IF found_can_id = TAG_FLUID_TEMP
    THEN IF FloatLeq(FLOAT_50, float_le) /\ FloatLeq(float_le, FLOAT_400)
         THEN float_le
         ELSE IF FloatLeq(FLOAT_50, float_be) /\ FloatLeq(float_be, FLOAT_400)
         THEN float_be
         ELSE float_le
    ELSE IF found_can_id = TAG_VEHICLE_SPEED
    THEN IF FloatLeq(FLOAT_0, float_le) /\ FloatLeq(float_le, FLOAT_200)
         THEN float_le
         ELSE IF FloatLeq(FLOAT_0, float_be) /\ FloatLeq(float_be, FLOAT_200)
         THEN float_be
         ELSE float_le
    ELSE float_le

\* the msg dictionary built for the pattern at j (wall-clock timestamp and
\* the display strings left out)
FreshMessage(j, found_can_id, data_bytes) ==
    [pos |-> j, can_id |-> found_can_id, length |-> 4, data |-> data_bytes,
     interpreted_value |-> FreshInterpret(found_can_id,
                                          UnpackFloatLE(data_bytes),
                                          UnpackFloatBE(data_bytes))]

\* the first index j >= i the loop condition i < len(buffer) - 25 admits at
\* which one of the patterns stands, or -1
FreshNextPattern(buf, i) ==
    LET hits == {j \in i..(Len(buf) - 26) :
                    UnpackLE32(Slice(buf, j, j + 4)) \in can_patterns}
    IN  IF hits = {} THEN -1
        ELSE CHOOSE j \in hits : \A k \in i..(j - 1) : k \notin hits

\* The while loop of parse_and_send_messages from index i: the messages built,
\* in order.  The buffer is read, never consumed.
RECURSIVE FreshScan(_, _, _)
FreshScanFound(buf, j, msgs) ==
    IF At(buf, j + 11) = 4
    THEN FreshScan(buf, j + 25,
                   Append(msgs, FreshMessage(j, UnpackLE32(Slice(buf, j, j + 4)),
                                             Slice(buf, j + 14, j + 18))))
    ELSE FreshScan(buf, j + 1, msgs)

FreshScan(buf, i, msgs) ==
    IF FreshNextPattern(buf, i) = -1
    THEN msgs
    ELSE FreshScanFound(buf, FreshNextPattern(buf, i), msgs)

\* parse_and_send_messages(buffer): the messages built
ParseAndSendMessages(buf) == FreshScan(buf, 0, <<>>)

\* needle in haystack, for byte strings
Contains(haystack, needle) ==
    \E k \in 0..(Len(haystack) - Len(needle)) :
        Slice(haystack, k, k + Len(needle)) = needle

DEBUG_MARK == <<68, 69, 66, 85, 71, 58>>     \* b'DEBUG:'
FRESH_READ_SIZE == 100
FRESH_TRIM_LIMIT == 2000
FRESH_TRIM_KEEP == 1000

FreshInitStats == [total_can_messages |-> 0, total_debug_messages |-> 0]

\* a message as the pattern scanner expects it: tag, 7 bytes, length byte at
\* offset 11, 2 bytes, 4 data bytes at offset 14, padded to 26 bytes
FreshFrame(can_id, length, data_bytes) ==
    PackLE32(can_id) \o <<0, 0, 0, 0, 0, 0, 0, length, 0, 0>> \o data_bytes
        \o <<0, 0, 0, 0, 0, 0, 0, 0>>

\* data bytes: 3.0 little-endian; 3.00003 big-endian whose little-endian
\* reading is negative; 98.6 big-endian; 98.6 little-endian; 200.78
\* little-endian that reads 100.14 big-endian; a little-endian NaN;
\* 10.000001 little-endian
FreshData ==
    {<<0, 0, 64, 64>>, <<64, 64, 0, 128>>, <<66, 197, 51, 51>>,
     <<51, 51, 197, 66>>, <<66, 200, 72, 67>>, <<0, 0, 192, 127>>,
     <<1, 0, 32, 65>>}

FreshMenu ==
    {FreshFrame(t, 4, d) : t \in can_patterns, d \in FreshData}
        \cup {FreshFrame(TAG_FLUID_TEMP, 8, <<51, 51, 197, 66>>),
              DEBUG_MARK \o <<32, 120, NEWLINE>>}

\* the state after FreshCANDashboard() is constructed
InitFresh ==
    /\ program = "fresh"
    /\ threads = NoThreads
    /\ wire = <<>>
    /\ sent = <<>>
    /\ tx = <<>>
    /\ serial_open = FALSE
    /\ is_connected = FALSE
    /\ is_running = FALSE
    /\ buffer = <<>>
    /\ parameter_values = EmptyTable
    /\ parameter_history = EmptyTable
    /\ stats = FreshInitStats
    /\ next_request_id = 1
    /\ req_pos = 0
    /\ last = [InitLast EXCEPT !.stats = FreshInitStats]

\* connect_serial() on a closed port followed by start_monitoring()
FreshConnect ==
    /\ program = "fresh"
    /\ ~serial_open
    /\ serial_open' = TRUE
    /\ is_running' = TRUE
    /\ stats' = FreshInitStats
    /\ UNCHANGED <<program, threads, wire, sent, tx, is_connected, buffer,
                   parameter_values, parameter_history, next_request_id,
                   req_pos, last>>

\* the ECU writes one burst m
FreshEcuSend(m) ==
    /\ serial_open
    /\ Len(sent) < MaxFreshMsgs
    /\ wire' = wire \o m
    /\ sent' = Append(sent, m)
    /\ UNCHANGED <<program, threads, tx, serial_open, is_connected, is_running, buffer,
                   parameter_values, parameter_history, stats, next_request_id,
                   req_pos, last>>

\* one iteration of read_loop in which read(100) returns data
FreshReadLoop ==
    /\ program = "fresh"
    /\ is_running /\ serial_open
    /\ wire # <<>>
    /\ \E data \in {Slice(wire, 0, FRESH_READ_SIZE)} :
       \E buf0 \in {buffer \o data} :
          /\ wire' = From(wire, FRESH_READ_SIZE)
          /\ stats' = [stats EXCEPT
                 !.total_can_messages = @ + 1,
                 !.total_debug_messages =
                     IF Contains(data, DEBUG_MARK) THEN @ + 1 ELSE @]
          /\ buffer' = IF Len(buf0) > FRESH_TRIM_LIMIT
                       THEN LastN(buf0, FRESH_TRIM_KEEP)
                       ELSE buf0
          /\ last' = [op |-> "recv", buffer |-> buf0, stats |-> stats,
                      parameter_values |-> parameter_values,
                      trace |-> ParseAndSendMessages(buf0), steps |-> 0]
    /\ UNCHANGED <<program, threads, sent, tx, serial_open, is_connected, is_running,
                   parameter_values, parameter_history, next_request_id,
                   req_pos>>

NextFresh ==
    \/ FreshConnect
    \/ \E m \in FreshMenu : FreshEcuSend(m)
    \/ FreshReadLoop

SpecFresh == InitFresh /\ [][NextFresh]_vars

-----------------------------------------------------------------------------
(* CANDashboard (can_dashboard.py)                                         *)
(*                                                                         *)
(* threads is the sequence of the monitor threads started so far, each     *)
(* with the local variables of monitor_thread: where it is (pc), its       *)
(* buffer, last_msg_count, and read_from, the number of the connection it  *)
(* last read bytes from (0: none).  The n-th successful connect_serial     *)
(* opens connection n and start_monitoring starts thread n for it.         *)

\* bursts the ECU emits in one behaviour of CANDashboard
MaxCanMsgs == 2
\* monitor threads started in one behaviour
MaxMonitors == 2

\* self.stats: total_messages and message_rate
CanInitStats == [total_messages |-> 0, message_rate |-> 0]

\* the keys of self.message_types
message_types == {TAG_CURRENT_GEAR, TAG_VEHICLE_SPEED, TAG_FLUID_TEMP}

\* variant: raw_size leaves out the timestamp
ParseCanMessage_RawSizeWithoutTimestamp(data) ==
    IF Len(data) < 9 THEN [ok |-> FALSE]
    ELSE IF At(data, 4) > 8 THEN [ok |-> FALSE]
    ELSE IF Len(data) < 5 + At(data, 4) + 4 THEN [ok |-> FALSE]
    ELSE [ok |-> TRUE,
          can_id |-> UnpackLE32(Slice(data, 0, 4)),
          length |-> At(data, 4),
          data |-> Slice(data, 5, 5 + At(data, 4)),
          raw_size |-> 5 + At(data, 4)]

\* parse_can_message(data): tag (4 bytes LE), length (1 byte), payload,
\* timestamp (4 bytes); ok is FALSE where the code returns None
ParseCanMessage(data) ==
    IF Len(data) < 9 THEN [ok |-> FALSE]
    ELSE IF At(data, 4) > 8 THEN [ok |-> FALSE]
    ELSE IF Len(data) < 5 + At(data, 4) + 4 THEN [ok |-> FALSE]
    ELSE [ok |-> TRUE,
          can_id |-> UnpackLE32(Slice(data, 0, 4)),
          length |-> At(data, 4),
          data |-> Slice(data, 5, 5 + At(data, 4)),
          raw_size |-> 9 + At(data, 4)]

\* interpret_message(msg)['interpreted_value']: "None", or the bit pattern of
\* the float chosen
InterpretMessage(can_id, data) ==
    IF can_id \in message_types /\ Len(data) >= 4
    THEN LET float_le == UnpackFloatLE(Slice(data, 0, 4))
             float_be == UnpackFloatBE(Slice(data, 0, 4))
         IN  IF can_id = TAG_CURRENT_GEAR
             THEN IF FloatLeq(FLOAT_0, float_le) /\ FloatLeq(float_le, FLOAT_10)
                  THEN float_le ELSE float_be
             ELSE IF can_id = TAG_VEHICLE_SPEED
             THEN IF FloatLeq(FLOAT_0, float_le) /\ FloatLeq(float_le, FLOAT_200)
                  THEN float_le ELSE float_be
             ELSE IF FloatLeq(FLOAT_50, float_le) /\ FloatLeq(float_le, FLOAT_400)
                  THEN float_le ELSE float_be
    ELSE "None"

\* the dashboard_msg process_message builds (display strings and wall-clock
\* time left out)
DashboardMsg(msg) ==
    [can_id |-> msg.can_id, length |-> msg.length, data |-> msg.data,
     interpreted_value |-> InterpretMessage(msg.can_id, msg.data)]

\* variant: a window that does not parse is kept
BufferAfterParse_KeepOnFailure(buf, msg) ==
    IF msg.ok THEN From(buf, msg.raw_size) ELSE buf

\* the inner loop's "buffer = buffer[msg['raw_size']:]" and
\* "buffer = buffer[1:]"
BufferAfterParse(buf, msg) ==
    IF msg.ok THEN From(buf, msg.raw_size) ELSE From(buf, 1)

\* a message as send_can_message writes it and parse_can_message reads it
CanFrame(can_id, data_bytes) ==
    PackLE32(can_id) \o <<Len(data_bytes)>> \o data_bytes \o <<0, 0, 0, 0>>

\* what the ECU sends: 98.6 little-endian; 3.0 little-endian, whose
\* big-endian reading is a denormal; 200.0 big-endian; a two-byte payload;
\* bytes with a length byte of 9
CanMenu ==
    {CanFrame(TAG_FLUID_TEMP, <<51, 51, 197, 66>>),
     CanFrame(TAG_FLUID_TEMP, <<0, 0, 64, 64>>),
     CanFrame(TAG_FLUID_TEMP, <<67, 72, 0, 0>>),
     CanFrame(TAG_CURRENT_GEAR, <<1, 2>>),
     <<7, 7, 7, 7, 9, 7, 7, 7, 7, 7, 7>>}

\* the state after CANDashboard() is constructed
InitCan ==
    /\ program = "can"
    /\ threads = <<>>
    /\ wire = <<>>
    /\ sent = <<>>
    /\ tx = <<>>
    /\ serial_open = FALSE
    /\ is_connected = FALSE
    /\ is_running = FALSE
    /\ buffer = <<>>
    /\ parameter_values = EmptyTable
    /\ parameter_history = EmptyTable
    /\ stats = CanInitStats
    /\ next_request_id = 1
    /\ req_pos = 0
    /\ last = [InitLast EXCEPT !.stats = CanInitStats]

\* the local variables of a monitor_thread that has just been started
NewMonitor == [pc |-> "top", buffer |-> <<>>, last_msg_count |-> 0, read_from |-> 0]

\* POST /api/connect with the port closed: connect_serial() opens the port
\* and resets total_messages, start_monitoring() sets running and starts a
\* monitor thread
CanConnect ==
    /\ program = "can"
    /\ ~serial_open
    /\ Len(threads) < MaxMonitors
    /\ serial_open' = TRUE
    /\ wire' = <<>>
    /\ stats' = [stats EXCEPT !.total_messages = 0]
    /\ is_running' = TRUE
    /\ threads' = Append(threads, NewMonitor)
    /\ last' = LastCall("connect")
    /\ UNCHANGED <<program, sent, tx, is_connected, buffer, parameter_values,
                   parameter_history, next_request_id, req_pos>>

\* POST /api/connect with the port open: connect_serial() calls
\* disconnect_serial() first, then goes on as above
CanReconnect ==
    /\ program = "can"
    /\ serial_open
    /\ Len(threads) < MaxMonitors
    /\ serial_open' = TRUE
    /\ wire' = <<>>
    /\ stats' = [stats EXCEPT !.total_messages = 0]
    /\ is_running' = TRUE
    /\ threads' = Append(threads, NewMonitor)
    /\ last' = LastCall("reconnect")
    /\ UNCHANGED <<program, sent, tx, is_connected, buffer, parameter_values,
                   parameter_history, next_request_id, req_pos>>

\* POST /api/disconnect: disconnect_serial()
CanDisconnect ==
    /\ program = "can"
    /\ serial_open
    /\ is_running' = FALSE
    /\ serial_open' = FALSE
    /\ wire' = <<>>
    /\ last' = LastCall("disconnect")
    /\ UNCHANGED <<program, threads, sent, tx, is_connected, buffer,
                   parameter_values, parameter_history, stats, next_request_id,
                   req_pos>>

\* monitor thread t at the top of its while loop: the loop condition, then
\* the read of what is waiting.  With the condition false (or the port
\* closed under the read, which raises, is printed and breaks) the thread
\* leaves the loop.
CanLoopTest(t) ==
    /\ program = "can"
    /\ t <= Len(threads)
    /\ threads[t].pc = "top"
    /\ IF is_running /\ serial_open
       THEN /\ threads' = [threads EXCEPT
                              ![t].pc = "drain",
                              ![t].buffer = @ \o wire,
                              ![t].read_from = IF wire # <<>> THEN Len(threads) ELSE @]
            /\ wire' = <<>>
       ELSE /\ threads' = [threads EXCEPT ![t].pc = "exiting"]
            /\ UNCHANGED wire
    /\ UNCHANGED <<program, sent, tx, serial_open, is_connected, is_running,
                   buffer, parameter_values, parameter_history, stats,
                   next_request_id, req_pos, last>>

\* monitor thread t after its loop: "self.running = False", and the thread
\* ends
CanThreadExit(t) ==
    /\ program = "can"
    /\ t <= Len(threads)
    /\ threads[t].pc = "exiting"
    /\ is_running' = FALSE
    /\ threads' = [threads EXCEPT ![t].pc = "done"]
    /\ UNCHANGED <<program, wire, sent, tx, serial_open, is_connected, buffer,
                   parameter_values, parameter_history, stats, next_request_id,
                   req_pos, last>>

\* one iteration of the inner loop "while len(buffer) >= 9" of thread t
CanParseStep(t) ==
    /\ program = "can"
    /\ t <= Len(threads)
    /\ threads[t].pc = "drain"
    /\ Len(threads[t].buffer) >= 9
    /\ LET buf == threads[t].buffer
           msg == ParseCanMessage(buf)
       IN  /\ threads' = [threads EXCEPT ![t].buffer = BufferAfterParse(buf, msg)]
           /\ IF msg.ok
              THEN /\ stats' = [stats EXCEPT !.total_messages = @ + 1]
                   /\ last' = [op |-> "message", buffer |-> buf, stats |-> stats,
                               parameter_values |-> parameter_values,
                               trace |-> <<DashboardMsg(msg)>>, steps |-> 0]
              ELSE UNCHANGED <<stats, last>>
    /\ UNCHANGED <<program, wire, sent, tx, serial_open, is_connected, is_running,
                   buffer, parameter_values, parameter_history, next_request_id,
                   req_pos>>

\* thread t after the inner loop, a second or more after the last rate
\* computation: "Calculate message rate every second"
CanRate(t) ==
    /\ program = "can"
    /\ t <= Len(threads)
    /\ threads[t].pc = "drain"
    /\ Len(threads[t].buffer) < 9
    /\ stats' = [stats EXCEPT
                    !.message_rate = stats.total_messages - threads[t].last_msg_count]
    /\ threads' = [threads EXCEPT ![t].pc = "top",
                                  ![t].last_msg_count = stats.total_messages]
    /\ UNCHANGED <<program, wire, sent, tx, serial_open, is_connected, is_running,
                   buffer, parameter_values, parameter_history, next_request_id,
                   req_pos, last>>

\* thread t after the inner loop, less than a second after the last rate
\* computation
CanSkipRate(t) ==
    /\ program = "can"
    /\ t <= Len(threads)
    /\ threads[t].pc = "drain"
    /\ Len(threads[t].buffer) < 9
    /\ threads' = [threads EXCEPT ![t].pc = "top"]
    /\ UNCHANGED <<program, wire, sent, tx, serial_open, is_connected, is_running,
                   buffer, parameter_values, parameter_history, stats,
                   next_request_id, req_pos, last>>

NextCan ==
    \/ CanConnect
    \/ CanReconnect
    \/ CanDisconnect
    \/ \E m \in CanMenu : EcuSendUpTo(m, MaxCanMsgs)
    \/ \E t \in 1..MaxMonitors : CanLoopTest(t)
    \/ \E t \in 1..MaxMonitors : CanThreadExit(t)
    \/ \E t \in 1..MaxMonitors : CanParseStep(t)
    \/ \E t \in 1..MaxMonitors : CanRate(t)
    \/ \E t \in 1..MaxMonitors : CanSkipRate(t)

SpecCan == InitCan /\ [][NextCan]_vars

\* well-formed messages of 13 and 17 bytes
CanSplitFrames ==
    {CanFrame(TAG_FLUID_TEMP, <<51, 51, 197, 66>>),
     CanFrame(TAG_VEHICLE_SPEED, <<0, 0, 72, 66, 1, 2, 3, 4>>)}

\* the two pieces of such a message, for every split point
CanSplitMenu ==
    UNION {{Slice(f, 0, k), From(f, k)} : f \in CanSplitFrames, k \in 1..16}
        \ {<<>>}

\* CANDashboard with a device whose messages arrive in pieces
NextCanSplit ==
    \/ CanConnect
    \/ \E m \in CanSplitMenu : EcuSendUpTo(m, MaxCanMsgs)
    \/ \E t \in 1..MaxMonitors : CanLoopTest(t)
    \/ \E t \in 1..MaxMonitors : CanParseStep(t)
    \/ \E t \in 1..MaxMonitors : CanSkipRate(t)

SpecCanSplit == InitCan /\ [][NextCanSplit]_vars

\* the bytes send_can_message(can_id, data_bytes) writes, timestamp being
\* int(time.time() * 1000) & 0xFFFFFFFF
SendCanMessage(can_id, data_bytes, timestamp) ==
    PackLE32(can_id) \o <<Len(data_bytes)>> \o data_bytes \o PackLE32(timestamp)

\* tags, payloads of 0..8 bytes and timestamps POST /api/send is called with
\* or takes from the clock
CanSendTags == {<<0, 0>>, TAG_FLUID_TEMP, <<65535, 65535>>}
CanSendPayloads ==
    {[i \in 1..n |-> b] : n \in 0..8, b \in {9, 255}} \cup {<<8, 0, 0, 0, 0>>}
CanSendTimestamps == {<<0, 0>>, <<65535, 65535>>}

\* POST /api/send on an open port: send_can_message writes the message
CanSend(can_id, data_bytes, timestamp) ==
    /\ program = "can"
    /\ serial_open
    /\ tx = <<>>
    /\ Len(sent) < MaxRequests
    /\ tx' = SendCanMessage(can_id, data_bytes, timestamp)
    /\ last' = LastCall("send")
    /\ UNCHANGED <<program, threads, wire, sent, serial_open, is_connected,
                   is_running, buffer, parameter_values, parameter_history,
                   stats, next_request_id, req_pos>>

\* CANDashboard on a loop-back: what it sends comes back and is parsed
NextCanRoundTrip ==
    \/ CanConnect
    \/ \E c \in CanSendTags, d \in CanSendPayloads, ts \in CanSendTimestamps :
          CanSend(c, d, ts)
    \/ EcuEcho
    \/ \E t \in 1..MaxMonitors : CanLoopTest(t)
    \/ \E t \in 1..MaxMonitors : CanParseStep(t)
    \/ \E t \in 1..MaxMonitors : CanSkipRate(t)

SpecCanRoundTrip == InitCan /\ [][NextCanRoundTrip]_vars

\* PrefixECUClient.connect() in the behaviours that hold both clients
PrefixConnect == program = "prefix" /\ Connect

\* one processing call after the other: PrefixECUClient's monitor cycle, and
\* the inner loop of CANDashboard's monitor thread, iteration by iteration
NextDrain ==
    \/ PrefixConnect
    \/ \E m \in LifeMenu : EcuSend(m)
    \/ RecvAll
    \/ CanConnect
    \/ \E m \in CanMenu : EcuSendUpTo(m, MaxCanMsgs)
    \/ \E t \in 1..MaxMonitors : CanLoopTest(t)
    \/ \E t \in 1..MaxMonitors : CanParseStep(t)
    \/ \E t \in 1..MaxMonitors : CanSkipRate(t)

\* a monitor thread inside its inner loop is scheduled again
SpecDrain ==
    /\ InitPrefix \/ InitCan
    /\ [][NextDrain]_vars
    /\ \A t \in 1..MaxMonitors : WF_vars(CanParseStep(t))

-----------------------------------------------------------------------------
(* Vocabulary of the properties *)

\* buf starts with the sentinel
StartsWithPrefix(buf) == Len(buf) >= 2 /\ At(buf, 0) = 255 /\ At(buf, 1) = 255

\* the sentinel occurs nowhere in buf
NoSentinel(buf) ==
    \A k \in 0..(Len(buf) - 2) : ~(At(buf, k) = 255 /\ At(buf, k + 1) = 255)

\* the 4-byte tag, the length byte and the opcode of a sentinel-prefixed frame
FrameTag(f) == UnpackLE32(Slice(f, 2, 6))
FrameLength(f) == At(f, 13)
FrameOperation(f) == At(f, 14)
\* the float a response frame carries
FrameValue(f) == UnpackFloatLE(Slice(f, 15, 19))

\* f is one complete frame: sentinel, registered tag, length 8, opcode 0x03
ValidFrame(f) ==
    /\ Len(f) = TOTAL_BINARY_SIZE
    /\ StartsWithPrefix(f)
    /\ FrameTag(f) \in DOMAIN PARAMETERS
    /\ FrameLength(f) = 8
    /\ FrameOperation(f) = READ_RESPONSE

\* buf is one or more complete newline-terminated lines
CompleteLines(buf) == Len(buf) >= 1 /\ At(buf, Len(buf) - 1) = NEWLINE

\* the number of newline bytes of buf
CountNewlines(buf) == Cardinality({k \in 0..(Len(buf) - 1) : At(buf, k) = NEWLINE})

\* the sample of frame f is what parameter_values holds for its tag
Stored(f) ==
    /\ FrameTag(f) \in DOMAIN parameter_values
    /\ parameter_values[FrameTag(f)].value = FrameValue(f)

\* the most recent step was a processing call of PrefixECUClient
PrefixProcessed == program = "prefix" /\ last.op = "recv"

\* the counters a decoded response moves, and the table, are as before the call
NoSampleStored ==
    /\ parameter_values = last.parameter_values
    /\ stats.total_responses = last.stats.total_responses
    /\ stats.successful_responses = last.stats.successful_responses

-----------------------------------------------------------------------------
(* C1..C6: framing of PrefixECUClient *)

\* C1: when the buffer begins with the sentinel 0xFF 0xFF and holds fewer than
\* 26 bytes, one call of _process_buffer_with_prefix leaves the buffer and
\* every counter unchanged, whatever bytes follow the sentinel.
C1_PartialFrameUntouched ==
    (PrefixProcessed /\ StartsWithPrefix(last.buffer)
        /\ Len(last.buffer) < TOTAL_BINARY_SIZE)
    => (buffer = last.buffer /\ stats = last.stats)

\* C2: however the bytes of a stream that holds one valid frame are split
\* into serial reads, once they are all read the frame's value is stored and
\* successful_responses is exactly 1, as when they arrive in a single read.
C2_SplitReadsDecodeOnce ==
    (program = "prefix" /\ Len(sent) = 1 /\ ValidFrame(sent[1]) /\ wire = <<>>)
    => (Stored(sent[1]) /\ stats.successful_responses = 1)

\* C3: a buffer made of a corrupted or truncated frame followed by a complete
\* valid frame: processing stores the valid frame's sample, after at most as
\* many 1-byte advances as the corrupted span is long.
C3_ResyncAfterCorruptedFrame ==
    (PrefixProcessed /\ Len(sent) = 2 /\ last.buffer = sent[1] \o sent[2]
        /\ StartsWithPrefix(sent[1]) /\ ~ValidFrame(sent[1])
        /\ ValidFrame(sent[2]))
    => (/\ Stored(sent[2])
        /\ stats.successful_responses > last.stats.successful_responses
        /\ last.steps <= Len(sent[1]))

\* C4: processing a buffer that is exactly one valid frame stores exactly one
\* value, for the frame's tag, increments successful_responses and
\* binary_messages by exactly 1 and leaves the buffer empty.
C4_SingleFrameDecoded ==
    (PrefixProcessed /\ ValidFrame(last.buffer))
    => (/\ Stored(last.buffer)
        /\ DOMAIN parameter_values
               = DOMAIN last.parameter_values \cup {FrameTag(last.buffer)}
        /\ \A t \in DOMAIN last.parameter_values \ {FrameTag(last.buffer)} :
               parameter_values[t] = last.parameter_values[t]
        /\ stats.successful_responses = last.stats.successful_responses + 1
        /\ stats.binary_messages = last.stats.binary_messages + 1
        /\ buffer = <<>>)

C4_Witness ==
    /\ PrefixProcessed /\ ValidFrame(last.buffer)
    /\ stats.successful_responses = 1 /\ stats.binary_messages = 1

\* C5: processing a buffer without sentinel that consists of k >= 1 complete
\* newline-terminated lines, of any total length, increments text_messages by
\* exactly k, leaves binary_messages unchanged and leaves the buffer empty.
C5_TextLinesAnyLength ==
    (PrefixProcessed /\ NoSentinel(last.buffer) /\ CompleteLines(last.buffer))
    => (/\ stats.text_messages
               = last.stats.text_messages + CountNewlines(last.buffer)
        /\ stats.binary_messages = last.stats.binary_messages
        /\ buffer = <<>>)

\* The part of C5 the code does satisfy: the same for every such buffer of at
\* least 2 and at most 1024 bytes (a 1-byte buffer is not processed; above
\* 1024 bytes the buffer is cut to its last 512 bytes before the lines are
\* extracted).
TextLinesWithinCap ==
    (PrefixProcessed /\ NoSentinel(last.buffer) /\ CompleteLines(last.buffer)
        /\ Len(last.buffer) >= 2 /\ Len(last.buffer) <= TRIM_LIMIT)
    => (/\ stats.text_messages
               = last.stats.text_messages + CountNewlines(last.buffer)
        /\ stats.binary_messages = last.stats.binary_messages
        /\ buffer = <<>>)

TextLinesWithinCap_Witness ==
    /\ PrefixProcessed /\ NoSentinel(last.buffer) /\ CompleteLines(last.buffer)
    /\ Len(last.buffer) > 600 /\ Len(last.buffer) <= TRIM_LIMIT
    /\ stats.text_messages > 6

\* C6: a complete text line that precedes a valid frame in the same buffer
\* is counted as a text line, and the frame is decoded.
C6_TextBeforeFrameKept ==
    (PrefixProcessed /\ Len(sent) = 2 /\ last.buffer = sent[1] \o sent[2]
        /\ NoSentinel(sent[1]) /\ CompleteLines(sent[1]) /\ ValidFrame(sent[2]))
    => (/\ stats.text_messages
               = last.stats.text_messages + CountNewlines(sent[1])
        /\ Stored(sent[2])
        /\ stats.binary_messages = last.stats.binary_messages + 1)

-----------------------------------------------------------------------------
(* C7..C10: validation of a candidate *)

\* the candidates the most recent processing call handed to the parser
Candidates == {last.trace[k] : k \in 1..Len(last.trace)}

\* tag 0 or above the 29-bit ceiling
TagOutOfRange(can_id) ==
    can_id = ZeroU32 \/ GreaterU32(can_id, MAX_EXTENDED_CAN_ID)

\* C7: a 24-byte candidate whose length byte is greater than 8 is always
\* rejected, whatever its other fields: PrefixECUClient's parser refuses it
\* and changes nothing, ECUClient never hands it to its parser, and a buffer
\* that is just such a candidate stores no sample in either client.
C7_LengthAboveEightRejected ==
    /\ (PrefixProcessed =>
          /\ \A e \in Candidates : e.length > 8 => (~e.ok /\ ~e.changed)
          /\ (Len(last.buffer) = TOTAL_BINARY_SIZE /\ StartsWithPrefix(last.buffer)
                  /\ FrameLength(last.buffer) > 8)
             => (NoSampleStored
                 /\ stats.binary_messages = last.stats.binary_messages))
    /\ ((program = "simple" /\ last.op = "recv") =>
          /\ \A e \in Candidates : e.length <= 8
          /\ (Len(last.buffer) = 24 /\ At(last.buffer, 11) > 8)
             => (NoSampleStored /\ last.trace = <<>>))

C7_Witness ==
    /\ PrefixProcessed
    /\ \E e \in Candidates :
          e.length > 8 /\ e.can_id \in DOMAIN PARAMETERS
              /\ e.operation = READ_RESPONSE

\* C8: a 24-byte candidate whose little-endian tag is 0 or greater than
\* 0x1FFFFFFF is rejected by ECUClient._is_valid_can_message and by
\* RobustECUClient._looks_like_can_message: it never reaches the parser, and
\* a buffer that is just such a candidate is not consumed and gives no sample.
C8_TagOutOfRangeRejected ==
    (program \in {"simple", "robust"} /\ last.op = "recv") =>
        /\ \A e \in Candidates : ~TagOutOfRange(e.can_id)
        /\ (Len(last.buffer) = 24 /\ FindNewline(last.buffer) = -1
                /\ TagOutOfRange(UnpackLE32(Slice(last.buffer, 0, 4))))
           => (buffer = last.buffer /\ NoSampleStored)

C8_Witness ==
    /\ program = "simple" /\ last.op = "recv"
    /\ Len(last.buffer) = 24
    /\ GreaterU32(UnpackLE32(Slice(last.buffer, 0, 4)), MAX_EXTENDED_CAN_ID)
    /\ At(last.buffer, 11) = 8
    /\ buffer = last.buffer

\* C9: the tags of parameter_values are tags of the registry, and a
\* candidate whose tag is not registered creates or changes no sample.
C9_OnlyRegisteredTagsStored ==
    /\ DOMAIN parameter_values \subseteq DOMAIN PARAMETERS
    /\ last.op = "recv" =>
          \A e \in Candidates : e.can_id \notin DOMAIN PARAMETERS => ~e.changed

C9_Witness ==
    /\ PrefixProcessed
    /\ \E e \in Candidates :
          e.can_id \notin DOMAIN PARAMETERS /\ e.length = 8
              /\ e.operation = READ_RESPONSE /\ ~e.ok

\* f is a request as send_parameter_request writes it: sentinel, registered
\* tag, length 8, opcode 0x01
RequestFrame(f) ==
    /\ Len(f) = TOTAL_BINARY_SIZE
    /\ StartsWithPrefix(f)
    /\ FrameTag(f) \in DOMAIN PARAMETERS
    /\ FrameLength(f) = 8
    /\ FrameOperation(f) = READ_REQUEST

\* C10: a payload whose byte 0 is not 0x03 updates neither parameter_values
\* nor total_responses nor successful_responses; an echoed request of
\* send_parameter_request is rejected and not stored.
C10_NonResponseOpcodeRejected ==
    PrefixProcessed =>
        /\ \A e \in Candidates :
              e.operation # READ_RESPONSE => (~e.ok /\ ~e.changed)
        /\ (tx = <<>> /\ Len(sent) = 1 /\ last.buffer = sent[1]
                /\ RequestFrame(sent[1]))
           => (NoSampleStored
               /\ stats.binary_messages = last.stats.binary_messages)

C10_Witness ==
    /\ PrefixProcessed
    /\ stats.total_requests = 1 /\ Len(sent) = 1 /\ last.buffer = sent[1]
    /\ RequestFrame(sent[1])
    /\ \E e \in Candidates : e.operation = READ_REQUEST /\ ~e.ok

-----------------------------------------------------------------------------
(* C11: endianness tie-break of FreshCANDashboard *)

\* x lies in lo..hi
InRange(x, lo, hi) == FloatLeq(lo, x) /\ FloatLeq(x, hi)

\* the valid range of each known tag: gear 0..10, temperature 50..400,
\* speed 0..200
RangeLow(t) == IF t = TAG_FLUID_TEMP THEN FLOAT_50 ELSE FLOAT_0
RangeHigh(t) ==
    IF t = TAG_CURRENT_GEAR THEN FLOAT_10
    ELSE IF t = TAG_FLUID_TEMP THEN FLOAT_400 ELSE FLOAT_200

\* C11: for each of the three known tags the value chosen by
\* parse_and_send_messages is the little-endian reading of the data bytes if
\* it lies in the tag's range, otherwise the big-endian reading if that lies
\* in the range, otherwise the little-endian reading.
C11_EndiannessTieBreak ==
    (program = "fresh" /\ last.op = "recv") =>
        \A k \in 1..Len(last.trace) :
            LET e == last.trace[k]
                le == UnpackLE32(e.data)
                be == <<e.data[1] * 256 + e.data[2], e.data[3] * 256 + e.data[4]>>
            IN  /\ e.can_id \in can_patterns
                /\ e.interpreted_value =
                       IF InRange(le, RangeLow(e.can_id), RangeHigh(e.can_id))
                       THEN le
                       ELSE IF InRange(be, RangeLow(e.can_id), RangeHigh(e.can_id))
                       THEN be
                       ELSE le

\* a message whose big-endian reading was chosen, and differs from the
\* little-endian one
C11_Witness ==
    /\ program = "fresh" /\ last.op = "recv"
    /\ \E k \in 1..Len(last.trace) :
          /\ last.trace[k].can_id = TAG_FLUID_TEMP
          /\ last.trace[k].interpreted_value = FLOAT_98_6
          /\ UnpackLE32(last.trace[k].data) # FLOAT_98_6

\* the bytes of a uint32 tag, least significant first
TagBytesLE(t) == <<t[2] % 256, t[2] \div 256, t[1] % 256, t[1] \div 256>>

\* the request thread has just written a request
RequestWritten == stats'.total_requests = stats.total_requests + 1

\* C12: every request send_parameter_request writes is 26 bytes: FF FF, then a
\* 24-byte frame with the tag little-endian at offset 0, length byte 8 at
\* offset 11, at offsets 12..19 opcode 0x01, value 0.0, source channel 1, the
\* request id next_request_id had at the call, reserved 0, and 0 elsewhere.
C12_RequestOnWire ==
    [][RequestWritten =>
        tx' = tx \o <<255, 255>> \o TagBytesLE(ParameterKeys[req_pos + 1])
                 \o <<0, 0, 0, 0, 0, 0, 0, 8>>
                 \o <<1, 0, 0, 0, 0, 1, next_request_id, 0>>
                 \o <<0, 0, 0, 0>>]_vars

\* requests for all three tags were written, the last one with an id above 128
C12_Witness ==
    /\ program = "prefix"
    /\ stats.total_requests = 200
    /\ Len(tx) = 200 * 26
    /\ tx[Len(tx) - 26 + 2 + 18 + 1] = 200

\* C13: next_request_id is always in 1..255, and every request that is sent
\* moves it from n to n + 1, from 255 to 1.
C13_RequestIdWraps ==
    /\ [](next_request_id \in 1..255)
    /\ [][RequestWritten =>
            next_request_id' = IF next_request_id = 255 THEN 1
                               ELSE next_request_id + 1]_vars

\* the id has wrapped: 256 requests were sent and the next id is 2
C13_Witness ==
    /\ program = "prefix"
    /\ stats.total_requests = 256
    /\ next_request_id = 2

\* s is what is left of t when bytes are dropped from its front
IsSuffix(s, t) == Len(s) <= Len(t) /\ s = LastN(t, Len(s))

\* a monitor cycle of PrefixECUClient or ECUClient has just completed
CycleCompleted == last.op = "recv" /\ program \in {"prefix", "simple"}

\* the buffer of that cycle when its size was tested against the cap
Untrimmed ==
    IF program = "prefix"
    THEN IF Len(last.buffer) < TOTAL_BINARY_SIZE
         THEN last.buffer
         ELSE ScanPrefix(last.buffer, 0, last.parameter_values, last.stats,
                         <<>>, 0).buffer
    ELSE SimpleProcessBuffer(last.buffer, last.parameter_values,
                             SimpleInitHistory, last.stats).buffer

CapOf(p) == IF p = "prefix" THEN 1024 ELSE 1000
KeptOf(p) == IF p = "prefix" THEN 512 ELSE 500

\* C14: after every completed monitor cycle the buffer holds at most 1024
\* bytes (PrefixECUClient) or 1000 bytes (ECUClient) and is a suffix of the
\* buffer the cycle tested against the cap; when that buffer exceeded the cap
\* the cut kept exactly its last 512 (500) bytes, of which PrefixECUClient
\* then still consumes the complete text lines.
C14_BufferCap ==
    CycleCompleted =>
        /\ Len(buffer) <= CapOf(program)
        /\ IsSuffix(buffer, Untrimmed)
        /\ Len(Untrimmed) > CapOf(program) =>
              LET kept == LastN(Untrimmed, KeptOf(program))
              IN  /\ IsSuffix(buffer, kept)
                  /\ (program = "simple" \/ FindNewline(kept) = -1)
                         => buffer = kept

\* a cycle whose buffer exceeded the cap and kept its last 512 (500) bytes
C14_Witness ==
    /\ CycleCompleted
    /\ Len(Untrimmed) > CapOf(program)
    /\ Len(buffer) = KeptOf(program)

\* the 24-byte messages of a byte string that is made of whole messages
RECURSIVE MessagesOf(_)
MessagesOf(bytes) ==
    IF Len(bytes) < 24 THEN <<>>
    ELSE <<Slice(bytes, 0, 24)>> \o MessagesOf(From(bytes, 24))

\* everything the ECU has sent, as one sequence of messages
RECURSIVE MessagesSent(_)
MessagesSent(k) ==
    IF k = 0 THEN <<>> ELSE MessagesSent(k - 1) \o MessagesOf(sent[k])

\* the values sent for one tag, in the order they were sent
ValuesSentFor(tag) ==
    LET ofTag == SelectSeq(MessagesSent(Len(sent)),
                           LAMBDA m : Slice(m, 0, 4) = TagBytesLE(tag))
    IN  [k \in 1..Len(ofTag) |->
            [value |-> <<ofTag[k][16] + 256 * ofTag[k][17],
                         ofTag[k][14] + 256 * ofTag[k][15]>>]]

\* ECUClient has decoded everything the ECU sent
AllDecoded ==
    program = "simple" /\ is_connected /\ wire = <<>> /\ buffer = <<>>

\* C15: in ECUClient every history ring holds at most 50 entries and
\* parameter_values[tag] is the value of the ring's newest entry; once all
\* responses sent are decoded, the ring of a tag holds the last 50 values sent
\* for it, oldest first.
C15_HistoryRing ==
    program = "simple" =>
        \A tag \in DOMAIN parameter_history :
            /\ Len(parameter_history[tag]) <= 50
            /\ parameter_history[tag] # <<>> =>
                  /\ tag \in DOMAIN parameter_values
                  /\ parameter_values[tag]
                        = parameter_history[tag][Len(parameter_history[tag])].value
            /\ parameter_history[tag] = <<>> => tag \notin DOMAIN parameter_values
            /\ AllDecoded =>
                  parameter_history[tag]
                      = LastN(ValuesSentFor(tag), Min(50, Len(ValuesSentFor(tag))))

\* 51 responses for one tag are decoded: the first one has been evicted
C15_Witness ==
    /\ AllDecoded
    /\ Len(ValuesSentFor(TAG_FLUID_TEMP)) = 51
    /\ Len(parameter_history[TAG_FLUID_TEMP]) = 50
    /\ parameter_history[TAG_FLUID_TEMP][1].value = <<16448, 102>>

\* connect() has just returned True
JustConnected == program = "prefix" /\ last.op = "connect"

\* C16: at the start of every connection of PrefixECUClient, the first one and
\* every later one, all stats counters are 0 and the receive buffer is empty.
C16_ReconnectResetsState ==
    JustConnected =>
        /\ stats.total_requests = 0
        /\ stats.total_responses = 0
        /\ stats.successful_responses = 0
        /\ stats.parse_errors = 0
        /\ stats.raw_bytes_received = 0
        /\ stats.text_messages = 0
        /\ stats.binary_messages = 0
        /\ stats.prefixes_found = 0
        /\ buffer = <<>>

\* C17: when a serial read of the monitor thread has failed, the client is
\* disconnected: is_connected and is_running are False and the monitor thread
\* has stopped.
C17_ReadErrorDisconnects ==
    (program = "prefix" /\ last.op = "read_error") =>
        /\ ~is_connected
        /\ ~is_running
        /\ threads.monitor = "done"

\* C18: when disconnect() has closed the port and cleared the buffer, the
\* monitor thread and every request thread have ended, and the buffer is
\* empty.
C18_DisconnectAfterTasksEnd ==
    (program = "prefix" /\ last.op = "disconnect") =>
        /\ threads.monitor \in {"none", "done"}
        /\ threads.request \in {"none", "done"}
        /\ threads.abandoned = "none"
        /\ buffer = <<>>

\* C19: a second _process_buffer_with_prefix() on the buffer the first one
\* left, nothing appended, decodes no frame and leaves the buffer,
\* parameter_values and every stats counter as they were.
C19_RefeedChangesNothing ==
    (program = "prefix" /\ last.op = "again") =>
        /\ \A k \in 1..Len(last.trace) : ~last.trace[k].ok
        /\ buffer = last.buffer
        /\ parameter_values = last.parameter_values
        /\ stats = last.stats

\* the request id and the source channel a frame's payload carries
FrameRequestId(f) == At(f, 20)
FrameSourceChannel(f) == At(f, 19)

\* the call processed exactly one frame, the ECU's answer to a request that
\* send_parameter_request encodes
AnswerProcessed ==
    /\ PrefixProcessed
    /\ ValidFrame(last.buffer)
    /\ FrameRequestId(last.buffer) \in 1..255
    /\ last.buffer = ResponseTo(BINARY_PREFIX \o
                         RequestMessage(FrameTag(last.buffer),
                                        FrameRequestId(last.buffer)))

\* C20: a request encoded with an id in 1..255 and answered by a response
\* that carries the id at payload byte 6 give a stored sample whose request id
\* is that id and whose source channel is payload byte 5.
C20_RequestIdRoundTrip ==
    AnswerProcessed =>
        /\ FrameTag(last.buffer) \in DOMAIN parameter_values
        /\ {"request_id", "source_channel"}
               \subseteq DOMAIN parameter_values[FrameTag(last.buffer)]
        /\ parameter_values[FrameTag(last.buffer)].request_id
               = FrameRequestId(last.buffer)
        /\ parameter_values[FrameTag(last.buffer)].source_channel
               = FrameSourceChannel(last.buffer)

\* the indices of buf at which a complete sentinel-prefixed frame window starts
CompleteWindows(buf) ==
    {j \in 0..(Len(buf) - TOTAL_BINARY_SIZE) :
        At(buf, j) = 255 /\ At(buf, j + 1) = 255}

\* C21: after a processing cycle of PrefixECUClient the buffer holds no
\* complete 26-byte window that starts with FF FF and no complete
\* newline-terminated line: a rejected candidate has been dropped.
C21_RejectedCandidateDropped ==
    PrefixProcessed =>
        /\ CompleteWindows(buffer) = {}
        /\ FindNewline(buffer) = -1

\* the candidates of the last processing call that were rejected / decoded
RejectedCandidates == {k \in 1..Len(last.trace) : ~last.trace[k].ok}
DecodedCandidates == {k \in 1..Len(last.trace) : last.trace[k].ok}

\* C22: every candidate of a processing call moves the statistics: a rejected
\* one (bad length, unknown tag, unexpected opcode) adds exactly 1 to
\* parse_errors, a decoded one adds 1 to successful_responses, and the scan
\* goes on after a rejection.
C22_RejectionCounted ==
    PrefixProcessed =>
        /\ stats.parse_errors
              = last.stats.parse_errors + Cardinality(RejectedCandidates)
        /\ stats.successful_responses
              = last.stats.successful_responses + Cardinality(DecodedCandidates)

\* a send of ECUClient or RobustECUClient on an open connection has returned;
\* last.trace holds the next_request_id it started from, last.buffer what had
\* been written before
PlainSendReturned == program \in {"simple", "robust"} /\ last.op = "send"

\* C25: in ECUClient and RobustECUClient a send on an open connection, for
\* every next_request_id n in 1..255, writes the 24-byte request with n in
\* the payload, adds 1 to total_requests and moves next_request_id to
\* (n mod 255) + 1.
C25_PlainRequestIdAdvances ==
    PlainSendReturned =>
        LET n == last.trace[1]
        IN  /\ n \in 1..255
            /\ Len(tx) = Len(last.buffer) + 24
            /\ tx[Len(tx) - 5] = n
            /\ stats.total_requests = last.stats.total_requests + 1
            /\ next_request_id = (IF n = 255 THEN 1 ELSE n + 1)

-----------------------------------------------------------------------------
(* C26 *)

\* disconnect() has returned and nothing was called since
RobustDisconnected == program = "robust" /\ last.op = "disconnect"

\* C26: after an explicit disconnect of RobustECUClient (and of the
\* PrefixECUClient of prefix_dashboard.py, whose disconnect is the same code)
\* is_running and is_connected are both False and get_status() reports
\* connected = False.
C26_DisconnectClearsFlags ==
    RobustDisconnected =>
        /\ ~is_running
        /\ ~is_connected
        /\ ~GetStatus.connected

-----------------------------------------------------------------------------
(* C23 *)

\* disconnect() has cleared both flags and connect() has not set them again
StopRequested == ~is_running /\ ~is_connected /\ threads # NoThreads

\* neither the monitor nor the request task is in its loop
TasksEnded ==
    /\ threads.monitor # "alive"
    /\ threads.request \notin {"alive", "sending"}

\* C23: once disconnect has cleared is_running and is_connected, and unless a
\* later connect sets them again, the monitor task and the request task both
\* leave their loops eventually (PrefixECUClient and ECUClient, threads
\* scheduled fairly).
C23_TasksStop == StopRequested ~> (TasksEnded \/ is_connected)

\* both tasks have left their loops on the cleared flags, the port not yet
\* closed by cleanup_connection()
C23_Witness ==
    /\ StopRequested
    /\ serial_open
    /\ threads.monitor = "done"
    /\ threads.request = "done"

-----------------------------------------------------------------------------
(* C24 *)

\* the calls made by the monitor task
MonitorCalls == {"recv"}

\* the calls whose accesses to buffer, parameter_values and stats are made
\* inside "with self.lock": the monitor cycle.  disconnect(), connect() and
\* cleanup_connection() take no lock.
LockedCalls == {"recv"}

\* C24: in working_dashboard3.py the receive buffer is mutated only by the
\* monitor task, and parameter_values is read and written only while
\* self.lock is held, by the monitor and by connect/disconnect/
\* cleanup_connection alike.
C24_SharedStateGuarded ==
    [][/\ buffer' # buffer => last'.op \in MonitorCalls
       /\ parameter_values' # parameter_values => last'.op \in LockedCalls]_vars

-----------------------------------------------------------------------------
(* C27, C29, C30: CANDashboard *)

\* C27: the message rate the monitor loop of CANDashboard publishes is the
\* number of messages counted since the previous rate computation, and is
\* never negative, a reconnect included.
C27_MessageRateNotNegative ==
    program = "can" => stats.message_rate >= 0

\* process_message has just handled a message
CanMessageProcessed == program = "can" /\ last.op = "message"

\* C29: interpret_message, for a known tag with at least 4 data bytes whose
\* little-endian and big-endian readings are both outside the tag's range,
\* yields the little-endian reading.
C29_DefaultsToLittleEndian ==
    CanMessageProcessed =>
        LET e == last.trace[1]
            le == UnpackFloatLE(Slice(e.data, 0, 4))
            be == UnpackFloatBE(Slice(e.data, 0, 4))
        IN  (/\ e.can_id \in message_types
             /\ Len(e.data) >= 4
             /\ ~InRange(le, RangeLow(e.can_id), RangeHigh(e.can_id))
             /\ ~InRange(be, RangeLow(e.can_id), RangeHigh(e.can_id)))
                => e.interpreted_value = le

\* C30: at most one monitor thread of CANDashboard reads from the serial
\* connection: a monitor thread reads only from the connection it was
\* started for, never from the one a later connect_serial opened.
C30_OneReaderPerConnection ==
    program = "can" =>
        \A t \in 1..Len(threads) : threads[t].read_from \in {0, t}

-----------------------------------------------------------------------------
(* C28 *)

\* iterations of the while loop of _extract_binary_messages_with_prefix in
\* the last call: those that executed i += 1 and those that cut a message
PrefixIterations == last.steps + Cardinality(DecodedCandidates)

\* monitor thread t of CANDashboard is inside "while len(buffer) >= 9"
InnerLoop(t) ==
    /\ program = "can"
    /\ t <= Len(threads)
    /\ threads[t].pc = "drain"
    /\ Len(threads[t].buffer) >= 9

\* C28: draining terminates for every finite buffer.  One call of
\* _process_buffer_with_prefix on n bytes makes at most n - 25 iterations of
\* the binary loop and cuts at most n text lines; a CANDashboard monitor
\* thread that is in its inner parse loop leaves it.
C28_DrainingTerminates ==
    /\ [](PrefixProcessed =>
            /\ PrefixIterations <= Max(Len(last.buffer) - 25, 0)
            /\ stats.text_messages - last.stats.text_messages <= Len(last.buffer))
    /\ \A t \in 1..MaxMonitors : InnerLoop(t) ~> ~InnerLoop(t)

\* a monitor thread has left the inner loop after cutting a message and
\* dropping bytes that did not parse
C28_Witness ==
    /\ program = "can"
    /\ Len(threads) = 1
    /\ threads[1].pc = "drain"
    /\ threads[1].buffer = <<7, 9, 7, 7, 7, 7, 7, 7>>
    /\ stats.total_messages = 1

-----------------------------------------------------------------------------
(* C31 *)

\* C31: in CANDashboard the exit of a monitor thread that belongs to an
\* earlier connection never clears running for the connection opened since:
\* running, once set by start_monitoring, is cleared only by
\* disconnect_serial or by the monitor thread of that same connection.
C31_EarlierExitLeavesRunning ==
    [][\A t \in 1..(Len(threads) - 1) :
          (program = "can" /\ threads[t].pc = "exiting" /\ threads'[t].pc = "done")
              => is_running' = is_running]_vars

-----------------------------------------------------------------------------
(* C32 *)

\* the device has sent one well-formed message in two pieces and the monitor
\* thread has read and drained both
CanSplitRead ==
    /\ program = "can"
    /\ Len(sent) = 2
    /\ sent[1] \o sent[2] \in CanSplitFrames
    /\ wire = <<>>
    /\ Len(threads) = 1
    /\ Len(threads[1].buffer) < 9

\* C32: a well-formed CANDashboard message that arrives split across two
\* serial reads, at any split point, is decoded exactly once; none of its
\* bytes are dropped while it is incomplete.
C32_CanSplitDecodedOnce ==
    CanSplitRead => (stats.total_messages = 1 /\ threads[1].buffer = <<>>)

-----------------------------------------------------------------------------
(* C38 *)

\* the monitor thread has just parsed the bytes that came back
CanEchoParsed ==
    /\ CanMessageProcessed
    /\ Len(sent) = 1
    /\ last.buffer = sent[1]

\* C38: the bytes send_can_message writes for a tag and a payload of 0..8
\* bytes are parsed by parse_can_message into a message with the same
\* can_id, length and data, and raw_size is the number of bytes written,
\* 9 + length: the parse loop consumes exactly the message.
C38_CanRoundTrip ==
    CanEchoParsed =>
        \A c \in CanSendTags, d \in CanSendPayloads, ts \in CanSendTimestamps :
            last.buffer = SendCanMessage(c, d, ts) =>
                /\ last.trace[1].can_id = c
                /\ last.trace[1].length = Len(d)
                /\ last.trace[1].data = d
                /\ Len(last.buffer) = 9 + Len(d)
                /\ threads[1].buffer = <<>>

\* an 8-byte payload of 0xFF bytes sent with tag 0xFFFFFFFF has come back
C38_Witness ==
    /\ CanEchoParsed
    /\ last.trace[1].can_id = <<65535, 65535>>
    /\ last.trace[1].data = <<255, 255, 255, 255, 255, 255, 255, 255>>

-----------------------------------------------------------------------------
(* C36 *)

\* C36: in PrefixECUClient.send_parameter_request total_requests and
\* next_request_id change only when the complete 26-byte request has been
\* written to the open port: a call on a closed connection, and a call whose
\* write raises, leave both unchanged.
C36_CountedOnlyWhenWritten ==
    [][(program = "prefix"
          /\ (stats'.total_requests # stats.total_requests
                \/ next_request_id' # next_request_id))
       => /\ serial_open
          /\ tx' = tx \o BINARY_PREFIX
                      \o RequestMessage(ParameterKeys[req_pos + 1], next_request_id)
          /\ stats'.total_requests = stats.total_requests + 1
          /\ next_request_id' = NextRequestId(next_request_id)]_vars

\* the write of the message has raised after the prefix went out, and
\* nothing was counted
C36_Witness ==
    /\ program = "prefix"
    /\ last.op = "send_error"
    /\ Len(tx) = Len(last.buffer) + 2
    /\ stats.total_requests = last.stats.total_requests

-----------------------------------------------------------------------------
(* C37 *)

\* C37: after a failed PrefixECUClient.connect the client is disconnected:
\* the port is released, is_connected and is_running are False, the buffer is
\* empty and no monitor or request thread runs, whether or not the client
\* was connected before.
C37_FailedConnectLeavesDisconnected ==
    (program = "prefix" /\ last.op = "connect_failed")
    => /\ ~serial_open
       /\ ~is_connected
       /\ ~is_running
       /\ buffer = <<>>
       /\ threads.monitor \notin {"alive", "sending"}
       /\ threads.request \notin {"alive", "sending"}
       /\ threads.abandoned # "sending"

-----------------------------------------------------------------------------
(* C34 *)

RECURSIVE Concat(_)
\* the bursts of a sequence of bursts, one after the other
Concat(bursts) ==
    IF bursts = <<>> THEN <<>> ELSE Head(bursts) \o Concat(Tail(bursts))

\* the bytes the monitor has read so far: what the ECU wrote less what waits
ReceivedStream == Slice(Concat(sent), 0, Len(Concat(sent)) - Len(wire))

\* the places of a stream where the sentinel FF FF starts
SentinelsIn(stream) ==
    {k \in 0..(Len(stream) - 2) :
        At(stream, k) = BINARY_PREFIX[1] /\ At(stream, k + 1) = BINARY_PREFIX[2]}

\* C34: PrefixECUClient counts each occurrence of the sentinel FF FF in the
\* received stream at most once: prefixes_found never exceeds the number of
\* places of the received stream where the sentinel starts.
C34_SentinelCountedOnce ==
    program = "prefix"
    => stats.prefixes_found <= Cardinality(SentinelsIn(ReceivedStream))

-----------------------------------------------------------------------------
(* C35 *)

\* the candidates of a processing call's trace that parsed: the frames the
\* call cut from the buffer at "remove the entire message including prefix"
FramesRemoved(trace) == Cardinality({k \in DOMAIN trace : trace[k].ok})

\* C35: between the processing calls of PrefixECUClient total_responses,
\* successful_responses and binary_messages are equal, and each call raises
\* them by the number of frames it removed from the buffer as parsed (26
\* bytes of the buffer for each); nothing else changes them.
C35_CountersCountRemovedFrames ==
    [][program = "prefix"
       => LET n == IF last' # last /\ last'.op = "recv"
                   THEN FramesRemoved(last'.trace) ELSE 0
          IN  /\ stats'.total_responses = stats'.successful_responses
              /\ stats'.successful_responses = stats'.binary_messages
              /\ stats'.binary_messages = stats.binary_messages + n
              /\ n > 0 => Len(buffer') <= Len(last'.buffer) - n * TOTAL_BINARY_SIZE]_vars

\* a read whose processing rejected one frame and removed another, the first
\* frame removed so far
C35_Witness ==
    /\ program = "prefix"
    /\ last.op = "recv"
    /\ \E a, b \in DOMAIN last.trace : last.trace[a].ok /\ ~last.trace[b].ok
    /\ stats.binary_messages = 1
    /\ stats.total_responses = 1

-----------------------------------------------------------------------------
(* WorkingCANDashboard (working_can_dashboard.py): one connection, its       *)
(* monitor thread reading a stream of debug text and binary messages.  For  *)
(* this program threads holds the monitor thread's state and its locals     *)
(* buffer and last_msg_count.                                               *)

MaxMixedMsgs == 2
MIXED_TRIM_LIMIT == 2000
MIXED_TRIM_KEEP == 1000

MixedInitStats ==
    [total_can_messages |-> 0, total_debug_messages |-> 0, message_rate |-> 0]

\* b'DEBUG: Sending to external_serial: 0x', the fixed part of the pattern
\* re.findall looks for
DEBUG_SENDING ==
    <<68, 69, 66, 85, 71, 58, 32, 83, 101, 110, 100, 105, 110, 103, 32,
      116, 111, 32, 101, 120, 116, 101, 114, 110, 97, 108, 95, 115, 101,
      114, 105, 97, 108, 58, 32, 48, 120>>

\* [0-9A-Fa-f]
IsHexDigit(b) == b \in (48..57) \cup (65..70) \cup (97..102)

\* len(re.findall(r'DEBUG: Sending to external_serial: (0x[0-9A-Fa-f]+)', ...))
DebugMatches(buf) ==
    Cardinality({k \in 0..(Len(buf) - Len(DEBUG_SENDING) - 1) :
                    /\ Slice(buf, k, k + Len(DEBUG_SENDING)) = DEBUG_SENDING
                    /\ IsHexDigit(At(buf, k + Len(DEBUG_SENDING)))})

\* the first index j >= i the loop condition i < len(data_chunk) - 25 admits
\* at which b'\x01\x01P\x10' stands, or -1
MixedNextPattern(data_chunk, i) ==
    LET hits == {j \in i..(Len(data_chunk) - 26) :
                    Slice(data_chunk, j, j + 4) = PackLE32(TAG_CURRENT_GEAR)}
    IN  IF hits = {} THEN -1
        ELSE CHOOSE j \in hits : \A k \in i..(j - 1) : k \notin hits

\* The while loop of parse_can_from_mixed_data from index i: the messages
\* built, in order (wall-clock timestamp and raw_hex left out).
RECURSIVE MixedScan(_, _, _)
MixedScan(data_chunk, i, messages) ==
    LET j == MixedNextPattern(data_chunk, i)
    IN  IF j = -1
        THEN messages
        ELSE IF At(data_chunk, j + 11) = 4
        THEN MixedScan(data_chunk, j + 26,
                 Append(messages,
                        [pos |-> j,
                         can_id |-> UnpackLE32(Slice(data_chunk, j, j + 4)),
                         length |-> 4,
                         data |-> Slice(data_chunk, j + 14, j + 18),
                         interpreted_value |->
                             UnpackFloatLE(Slice(data_chunk, j + 14, j + 18))]))
        ELSE MixedScan(data_chunk, j + 1, messages)

\* parse_can_from_mixed_data(data_chunk): the messages returned
ParseCanFromMixedData(data_chunk) == MixedScan(data_chunk, 0, <<>>)

\* a message as parse_can_from_mixed_data expects it: tag, 7 bytes, the
\* length byte at offset 11, 2 bytes, 4 data bytes, 8 bytes of padding
MixedFrame(can_id, length, data_bytes) ==
    PackLE32(can_id) \o <<0, 96, 0, 1, 0, 0, 0, length, 0, 0>> \o data_bytes
        \o <<0, 0, 0, 0, 0, 0, 0, 0>>

\* what the ECU sends: gear 3.0, gear 1.0, a gear frame of length 8, a frame
\* with another tag, a debug line, a line of other text
MixedMenu ==
    {MixedFrame(TAG_CURRENT_GEAR, 4, <<0, 0, 64, 64>>),
     MixedFrame(TAG_CURRENT_GEAR, 4, <<0, 0, 128, 63>>),
     MixedFrame(TAG_CURRENT_GEAR, 8, <<0, 0, 64, 64>>),
     MixedFrame(TAG_FLUID_TEMP, 4, <<51, 51, 197, 66>>),
     DEBUG_SENDING \o <<49, 48, 53, 48, 48, 49, 48, 49, NEWLINE>>,
     <<111, 107, NEWLINE>>}

\* the state after WorkingCANDashboard() is constructed
InitMixed ==
    /\ program = "mixed"
    /\ threads = [monitor |-> "none", buffer |-> <<>>, last_msg_count |-> 0]
    /\ wire = <<>>
    /\ sent = <<>>
    /\ tx = <<>>
    /\ serial_open = FALSE
    /\ is_connected = FALSE
    /\ is_running = FALSE
    /\ buffer = <<>>
    /\ parameter_values = EmptyTable
    /\ parameter_history = EmptyTable
    /\ stats = MixedInitStats
    /\ next_request_id = 1
    /\ req_pos = 0
    /\ last = [InitLast EXCEPT !.stats = MixedInitStats]

\* /api/connect: connect_serial() on a closed port, then start_monitoring()
MixedConnect ==
    /\ program = "mixed"
    /\ ~serial_open
    /\ threads.monitor = "none"
    /\ serial_open' = TRUE
    /\ is_running' = TRUE
    /\ stats' = [stats EXCEPT !.total_can_messages = 0,
                              !.total_debug_messages = 0]
    /\ threads' = [monitor |-> "alive", buffer |-> <<>>, last_msg_count |-> 0]
    /\ UNCHANGED <<program, wire, sent, tx, is_connected, buffer,
                   parameter_values, parameter_history, next_request_id,
                   req_pos, last>>

\* One iteration of monitor_thread's loop: when bytes wait they are read,
\* appended to buffer, the debug lines of the whole buffer are counted, the
\* whole buffer is parsed, each message is processed and the buffer is
\* trimmed; when a second has passed (tick) the rate is computed.
MixedMonitor(tick) ==
    /\ program = "mixed"
    /\ threads.monitor = "alive"
    /\ is_running /\ serial_open
    /\ wire # <<>> \/ tick
    /\ LET buf0 == threads.buffer \o wire
           can_messages == IF wire # <<>> THEN ParseCanFromMixedData(buf0)
                           ELSE <<>>
           current_count == stats.total_can_messages + Len(can_messages)
       IN  /\ stats' = [stats EXCEPT
                  !.total_debug_messages =
                      IF wire # <<>> THEN @ + DebugMatches(buf0) ELSE @,
                  !.total_can_messages = current_count,
                  !.message_rate =
                      IF tick THEN current_count - threads.last_msg_count ELSE @]
           /\ threads' = [threads EXCEPT
                  !.buffer = IF Len(buf0) > MIXED_TRIM_LIMIT
                             THEN LastN(buf0, MIXED_TRIM_KEEP)
                             ELSE buf0,
                  !.last_msg_count = IF tick THEN current_count ELSE @]
           /\ last' = [op |-> "recv", buffer |-> buf0, stats |-> stats,
                       parameter_values |-> parameter_values,
                       trace |-> can_messages, steps |-> 0]
    /\ wire' = <<>>
    /\ UNCHANGED <<program, sent, tx, serial_open, is_connected, is_running, buffer,
                   parameter_values, parameter_history, next_request_id,
                   req_pos>>

NextMixed ==
    \/ MixedConnect
    \/ \E m \in MixedMenu : EcuSendUpTo(m, MaxMixedMsgs)
    \/ \E tick \in BOOLEAN : MixedMonitor(tick)

SpecMixed == InitMixed /\ [][NextMixed]_vars

-----------------------------------------------------------------------------
(* C33 *)

\* C33: WorkingCANDashboard processes each message of the received stream at
\* most once: total_can_messages never exceeds the number of messages
\* parse_can_from_mixed_data finds in all the bytes received so far.
C33_MessageProcessedOnce ==
    program = "mixed"
    => stats.total_can_messages <= Len(ParseCanFromMixedData(ReceivedStream))

====
